---- MODULE Spec2Model ----
(***************************************************************************)
(* A model of the PawnPP abstract machine (src/amx.h) and of the callback  *)
(* broker of its loader (src/amx_loader.h), in the instantiation used by   *)
(* the test suite: 16-bit cells over a Von Neumann manager with one paged  *)
(* backing of 5 index bits.                                                *)
(***************************************************************************)
EXTENDS Integers, Sequences, FiniteSets, TLC

(***************************************************************************)
(* Cell traits                                                             *)
(***************************************************************************)
cell_bytes == 2
cell_bits == cell_bytes * 8
Modulus == 2 ^ cell_bits
misalign_mask == cell_bytes - 1

\* conversion of an integer to the unsigned cell type
cell(x) == x % Modulus
\* conversion of a cell to its signed twin
scell(x) == IF x >= Modulus \div 2 THEN x - Modulus ELSE x

RECURSIVE BitOp(_, _, _, _)
\* bitwise combination of two naturals, bit by bit; op is "and", "or" or "xor"
BitOp(op, a, b, n) ==
  IF n = 0 THEN 0
  ELSE LET x == a % 2
           y == b % 2
           bit == CASE op = "and" -> IF x = 1 /\ y = 1 THEN 1 ELSE 0
                    [] op = "or" -> IF x = 1 \/ y = 1 THEN 1 ELSE 0
                    [] OTHER -> IF x # y THEN 1 ELSE 0
       IN bit + 2 * BitOp(op, a \div 2, b \div 2, n - 1)

\* C++ integer division and remainder, rounding toward zero; the operands
\* are never negated, so that the least value of a type can be divided
tdiv_by_positive(a, b) ==
  IF a >= 0 \/ a % b = 0 THEN a \div b ELSE (a \div b) + 1
tdiv(a, b) ==
  IF b > 0 THEN tdiv_by_positive(a, b) ELSE 0 - tdiv_by_positive(a, 0 - b)
tmod(a, b) == a - b * tdiv(a, b)

\* the width of int: operands of narrower types are promoted to it
int_bits == 32
\* the least value of a signed type of w bits
smin(w) == (0 - 2 ^ (w - 2)) * 2
\* conversion of the value of an expression to the signed type of w bits;
\* an expression of a type as wide as int has that type already
to_scell(w, x) ==
  IF w >= int_bits THEN x ELSE ((x + 2 ^ (w - 1)) % 2 ^ w) - 2 ^ (w - 1)

\* the body of OP_SDIV behind the test for zero, on cells of w bits as signed
\* values: the quotient left in PRI and the remainder left in ALT. On
\* overflow of (scell)a / (scell)b, which is undefined behaviour, the division
\* instruction traps or wraps.
sdiv(w, a, b) ==
  IF w >= int_bits /\ a = smin(w) /\ b = -1
  THEN {[trap |-> TRUE], [trap |-> FALSE, q |-> smin(w), r |-> 0]}
  ELSE LET pri == to_scell(w, tdiv(a, b))
           alt == to_scell(w, tmod(a, b))
       IN IF alt # 0 /\ (alt < 0) # (b < 0)
          THEN {[trap |-> FALSE, q |-> to_scell(w, pri - 1), r |-> to_scell(w, alt + b)]}
          ELSE {[trap |-> FALSE, q |-> pri, r |-> alt]}

(***************************************************************************)
(* Error codes                                                             *)
(***************************************************************************)
error ==
  {"success", "access_violation", "access_violation_code", "invalid_instruction",
   "invalid_operand", "division_with_zero", "halt", "bounds", "callback_abort"}

(***************************************************************************)
(* Paged memory backing and the Von Neumann manager                        *)
(***************************************************************************)
index_bits == 5
offset_bits == cell_bits - index_bits
page_count == 2 ^ index_bits
page_size == 2 ^ offset_bits

\* a host pointer: a buffer and a cell index into it; nullptr is null
null == [buf |-> "null", idx |-> 0]
\* one page slot; a free slot holds nullptr and size 0
mapping(p, size) == [buf |-> p, size |-> size]
no_mappings == [i \in 0 .. page_count - 1 |-> mapping(null, 0)]

page_index(va) == va \div page_size
page_offset(va) == va % page_size
make_va(index, offset) == BitOp("or", cell(index * page_size), offset, cell_bits)

\* a translate that wraps an offset past the valid size back into the page
translate_wrapping(m, va) ==
  IF va % cell_bytes # 0 THEN null
  ELSE LET mp == m[page_index(va)]
       IN IF mp.buf = null THEN null
          ELSE [buf |-> mp.buf.buf,
                idx |-> mp.buf.idx + (page_offset(va) % mp.size) \div cell_bytes]

translate(m, va) ==
  IF va % cell_bytes # 0 THEN null
  ELSE LET mp == m[page_index(va)]
       IN IF mp.buf = null THEN null
          ELSE LET off == page_offset(va)
               IN IF off >= mp.size THEN null
                  ELSE [buf |-> mp.buf.buf, idx |-> mp.buf.idx + off \div cell_bytes]

RECURSIVE map_scan(_, _, _, _)
\* the do-while of map: the index at which in_a_row reaches count, or -1
map_scan(m, count, index, in_a_row) ==
  LET row == IF m[index].buf # null THEN 0 ELSE in_a_row + 1
      nxt == cell(index + 1)
  IN IF row = count THEN index
     ELSE IF nxt # 0 /\ nxt # page_count THEN map_scan(m, count, nxt, row)
     ELSE -1

\* map(buf, size, va): [ok, va, m, beyond]; at found: index is the slot at
\* which the run of free slots became long enough. The slots written past
\* the table are not part of m: they are the set beyond.
map(m, p, size) ==
  IF size = 0 THEN [ok |-> TRUE, va |-> Modulus - 1 - misalign_mask, m |-> m, beyond |-> {}]
  ELSE IF size > Modulus - 1 THEN [ok |-> FALSE, va |-> 0, m |-> m, beyond |-> {}]
  ELSE LET bytes == size * cell_bytes
           count == page_index(cell(bytes + page_size - 1))
           index == map_scan(m, count, 0, 0)
       IN IF index < 0 THEN [ok |-> FALSE, va |-> 0, m |-> m, beyond |-> {}]
          ELSE [ok |-> TRUE,
                va |-> make_va(index, 0),
                m |-> [s \in 0 .. page_count - 1 |->
                         IF s >= index /\ s < index + count
                         THEN mapping([buf |-> p.buf,
                                       idx |-> p.idx + (page_size \div cell_bytes) * (s - index)],
                                      bytes - page_size * (s - index))
                         ELSE m[s]],
                beyond |-> {s \in index .. index + count - 1 : s >= page_count}]

unmap(m, va, size) ==
  LET first == page_index(va)
      count == page_index(cell(size * cell_bytes + page_size - 1))
  IN [s \in 0 .. page_count - 1 |->
        IF s >= first /\ s < first + count THEN mapping(null, 0) ELSE m[s]]

\* a contiguous translate that refuses misaligned addresses
contiguous_translate_aligned(backing, va) ==
  IF va % cell_bytes # 0 \/ va >= backing.size THEN null
  ELSE [buf |-> backing.buf, idx |-> va \div cell_bytes]

\* memory_backing_contignous_buffer::translate, on the buffer and its size in
\* bytes
contiguous_translate(backing, va) ==
  IF va >= backing.size THEN null
  ELSE [buf |-> backing.buf, idx |-> va \div cell_bytes]

\* memory_backing_partial_address_space: the bits of an address that select
\* a cell of the buffer
valid_bits == 12
offset_mask_align == (2 ^ valid_bits - 1) - misalign_mask
\* its translate: the host address made of the masked address and the bits
\* kept by map; the address 0 is nullptr
partial_translate(backing_bits, va) ==
  LET address == BitOp("or", BitOp("and", va, offset_mask_align, cell_bits),
                       backing_bits, cell_bits)
  IN IF address = 0 THEN null ELSE [buf |-> "address", idx |-> address]

\* A memory manager is the page slots of its backings in a row:
\* memory_manager_neumann holds one backing, memory_manager_harvard a code
\* backing followed by a data backing.
no_mappings_harvard == [i \in 0 .. 2 * page_count - 1 |-> mapping(null, 0)]
harvard(mm) == page_count \in DOMAIN mm

\* memory_manager_neumann: code() and data() are the same backing;
\* memory_manager_harvard: code() is _code and data() is _data
code_backing(mm) ==
  IF harvard(mm) THEN [i \in 0 .. page_count - 1 |-> mm[i]] ELSE mm
data_backing(mm) ==
  IF harvard(mm) THEN [i \in 0 .. page_count - 1 |-> mm[page_count + i]] ELSE mm

\* the manager once code().map, or data().map, has left the table t
with_code(mm, t) ==
  IF harvard(mm) THEN [i \in DOMAIN mm |-> IF i < page_count THEN t[i] ELSE mm[i]] ELSE t
with_data(mm, t) ==
  IF harvard(mm) THEN [i \in DOMAIN mm |-> IF i < page_count THEN mm[i] ELSE t[i - page_count]]
  ELSE t

(***************************************************************************)
(* Registers and address translation of the interpreter                    *)
(***************************************************************************)
Registers == {"PRI", "ALT", "FRM", "CIP", "DAT", "COD", "STP", "STK", "HEA"}

data_v2p(mm, r, v) == translate(data_backing(mm), cell(r.DAT + v))
code_v2p(mm, r, v) == translate(code_backing(mm), cell(r.COD + v))

\* *p and *p = v on the host buffers
rd(b, p) == b[p.buf][p.idx + 1]
wr(b, p, v) == [b EXCEPT ![p.buf][p.idx + 1] = v]

INC(r, name) == [r EXCEPT ![name] = cell(r[name] + cell_bytes)]
DEC(r, name) == [r EXCEPT ![name] = cell(r[name] - cell_bytes + Modulus)]

cbid_single_step == Modulus - 1
cbid_break == Modulus - 2

(***************************************************************************)
(* Instruction set                                                         *)
(***************************************************************************)
\* the opcode enum of step, in order: opcode k is opcode_names[k + 1]
opcode_names ==
  << "NOP", "LOAD_PRI", "LOAD_ALT", "LOAD_S_PRI", "LOAD_S_ALT", "LREF_S_PRI",
     "LREF_S_ALT", "LOAD_I", "LODB_I", "CONST_PRI", "CONST_ALT", "ADDR_PRI",
     "ADDR_ALT", "STOR", "STOR_S", "SREF_S", "STOR_I", "STRB_I", "ALIGN_PRI",
     "LCTRL", "SCTRL", "XCHG", "PUSH_PRI", "PUSH_ALT", "PUSHR_PRI", "POP_PRI",
     "POP_ALT", "PICK", "STACK", "HEAP", "PROC", "RET", "RETN", "CALL", "JUMP",
     "JZER", "JNZ", "SHL", "SHR", "SSHR", "SHL_C_PRI", "SHL_C_ALT", "SMUL",
     "SDIV", "ADD", "SUB", "AND", "OR", "XOR", "NOT", "NEG", "INVERT", "EQ",
     "NEQ", "SLESS", "SLEQ", "SGRTR", "SGEQ", "INC_PRI", "INC_ALT", "INC_I",
     "DEC_PRI", "DEC_ALT", "DEC_I", "MOVS", "CMPS", "FILL", "HALT", "BOUNDS",
     "SYSREQ", "SWITCH", "SWAP_PRI", "SWAP_ALT", "BREAK", "CASETBL" >>
OP_NUM_OPCODES == Len(opcode_names)
\* the number of an opcode
OP(name) == (CHOOSE k \in 1 .. OP_NUM_OPCODES : opcode_names[k] = name) - 1
OP_CASETBL == OP("CASETBL")

\* the cases of step that begin with OPERAND()
operand_ops ==
  {"LOAD_PRI", "LOAD_ALT", "LOAD_S_PRI", "LOAD_S_ALT", "LREF_S_PRI", "LREF_S_ALT",
   "LODB_I", "CONST_PRI", "CONST_ALT", "ADDR_PRI", "ADDR_ALT", "STOR", "STOR_S",
   "SREF_S", "STRB_I", "ALIGN_PRI", "LCTRL", "SCTRL", "PICK", "STACK", "HEAP",
   "CALL", "JUMP", "JZER", "JNZ", "SHL_C_PRI", "SHL_C_ALT", "MOVS", "CMPS",
   "FILL", "HALT", "BOUNDS", "SYSREQ", "SWITCH"}

\* no callback is to be fired
NoFire == -1
\* what one decode can come to: step returned result, or it has reached
\* fire_callback(fire) and returns what the callback returns
Done(res, r, b) == {[result |-> res, reg |-> r, buf |-> b, fire |-> NoFire]}
Fire(index, r, b) == {[result |-> "success", reg |-> r, buf |-> b, fire |-> index]}

PUSH(mm, r, b, v) ==
  LET r1 == DEC(r, "STK")
      p == data_v2p(mm, r1, r1.STK)
  IN [ok |-> p # null, reg |-> r1, buf |-> IF p = null THEN b ELSE wr(b, p, v)]

POP(mm, r, b, name) ==
  LET p == data_v2p(mm, r, r.STK)
  IN IF p = null THEN [ok |-> FALSE, reg |-> r]
     ELSE [ok |-> TRUE, reg |-> INC([r EXCEPT ![name] = rd(b, p)], "STK")]

\* DATA(addr); dst = RESULT()
op_load(mm, r, b, addr, dst) ==
  LET p == data_v2p(mm, r, addr)
  IN IF p = null THEN Done("access_violation", r, b)
     ELSE Done("success", [r EXCEPT ![dst] = rd(b, p)], b)

\* DATA(addr); DATA(RESULT()); dst = RESULT()
op_lref(mm, r, b, addr, dst) ==
  LET p == data_v2p(mm, r, addr)
  IN IF p = null THEN Done("access_violation", r, b)
     ELSE op_load(mm, r, b, rd(b, p), dst)

\* a store that refuses a cell of the code image
op_stor_protects_code(mm, r, b, addr, v) ==
  LET p == data_v2p(mm, r, addr)
  IN IF p = null \/ p.buf = "code" THEN Done("access_violation", r, b)
     ELSE Done("success", r, wr(b, p, v))

\* DATA(addr); RESULT() = v
op_stor(mm, r, b, addr, v) ==
  LET p == data_v2p(mm, r, addr)
  IN IF p = null THEN Done("access_violation", r, b)
     ELSE Done("success", r, wr(b, p, v))

\* DATA(addr); DATA(RESULT()); RESULT() = v
op_sref(mm, r, b, addr, v) ==
  LET p == data_v2p(mm, r, addr)
  IN IF p = null THEN Done("access_violation", r, b)
     ELSE op_stor(mm, r, b, rd(b, p), v)

\* the bytes of a cell of cb bytes, least significant first, and back
bytes_of(cb, x) == [k \in 1 .. cb |-> (x \div 256 ^ (k - 1)) % 256]
RECURSIVE cell_of(_)
cell_of(bytes) ==
  IF bytes = << >> THEN 0 ELSE bytes[1] + 256 * cell_of(Tail(bytes))

\* an access of w bytes at addr spans across cells of cb bytes
spans_cells(cb, addr, w) ==
  addr - (addr % cb) # (addr + w - 1) - ((addr + w - 1) % cb)

\* (RESULT() >> subcell_bits) & mask, mask of w bytes, on the bytes of a cell
lodb(bytes, pos, w) ==
  [k \in 1 .. Len(bytes) |-> IF k <= w /\ k + pos <= Len(bytes) THEN bytes[k + pos] ELSE 0]

\* a store that replaces the cell by the shifted value
strb_whole_cell(old, pri, pos, w) ==
  [k \in 1 .. Len(old) |-> IF k > pos /\ k <= pos + w THEN pri[k - pos] ELSE 0]

\* (cell)((RESULT() & ~(mask << subcell_bits)) | ((PRI & mask) << subcell_bits))
strb(old, pri, pos, w) ==
  [k \in 1 .. Len(old) |-> IF k > pos /\ k <= pos + w THEN pri[k - pos] ELSE old[k]]

op_lodb_i(mm, r, b, operand) ==
  LET aligned == r.PRI - (r.PRI % cell_bytes)
      p == data_v2p(mm, r, aligned)
  IN IF spans_cells(cell_bytes, r.PRI, operand) THEN Done("invalid_operand", r, b)
     ELSE IF p = null THEN Done("access_violation", r, b)
     ELSE IF operand \in {1, 2, 4}
     THEN Done("success",
               [r EXCEPT !.PRI = cell_of(lodb(bytes_of(cell_bytes, rd(b, p)),
                                              r.PRI % cell_bytes, operand))], b)
     ELSE Done("invalid_operand", r, b)

op_strb_i(mm, r, b, operand) ==
  LET aligned == r.ALT - (r.ALT % cell_bytes)
      p == data_v2p(mm, r, aligned)
  IN IF spans_cells(cell_bytes, r.ALT, operand) THEN Done("invalid_operand", r, b)
     ELSE IF p = null THEN Done("access_violation", r, b)
     ELSE IF operand \in {1, 2, 4}
     THEN Done("success", r,
               wr(b, p, cell_of(strb(bytes_of(cell_bytes, rd(b, p)),
                                     bytes_of(cell_bytes, r.PRI),
                                     r.ALT % cell_bytes, operand))))
     ELSE Done("invalid_operand", r, b)

op_lctrl(r, b, operand) ==
  CASE operand = 0 -> Done("success", [r EXCEPT !.PRI = r.COD], b)
    [] operand = 1 -> Done("success", [r EXCEPT !.PRI = r.DAT], b)
    [] operand = 2 -> Done("success", [r EXCEPT !.PRI = r.HEA], b)
    [] operand = 3 -> Done("success", [r EXCEPT !.PRI = r.STP], b)
    [] operand = 4 -> Done("success", [r EXCEPT !.PRI = r.STK], b)
    [] operand = 5 -> Done("success", [r EXCEPT !.PRI = r.FRM], b)
    [] operand = 6 -> Done("success", [r EXCEPT !.PRI = r.CIP], b)
    [] OTHER -> Done("invalid_operand", r, b)

\* an SCTRL that writes every register LCTRL reads
op_sctrl_every_tag(r, b, operand) ==
  CASE operand = 0 -> Done("success", [r EXCEPT !.COD = r.PRI], b)
    [] operand = 1 -> Done("success", [r EXCEPT !.DAT = r.PRI], b)
    [] operand = 2 -> Done("success", [r EXCEPT !.HEA = r.PRI], b)
    [] operand = 3 -> Done("success", [r EXCEPT !.STP = r.PRI], b)
    [] operand = 4 -> Done("success", [r EXCEPT !.STK = r.PRI], b)
    [] operand = 5 -> Done("success", [r EXCEPT !.FRM = r.PRI], b)
    [] operand = 6 -> Done("success", [r EXCEPT !.CIP = r.PRI], b)
    [] OTHER -> Done("invalid_operand", r, b)

op_sctrl(r, b, operand) ==
  CASE operand = 2 -> Done("success", [r EXCEPT !.HEA = r.PRI], b)
    [] operand = 4 -> Done("success", [r EXCEPT !.STK = r.PRI], b)
    [] operand = 5 -> Done("success", [r EXCEPT !.FRM = r.PRI], b)
    [] operand = 6 -> Done("success", [r EXCEPT !.CIP = r.PRI], b)
    [] OTHER -> Done("invalid_operand", r, b)

op_push(mm, r, b, v) ==
  LET q == PUSH(mm, r, b, v)
  IN Done(IF q.ok THEN "success" ELSE "access_violation", q.reg, q.buf)

op_pop(mm, r, b, name) ==
  LET q == POP(mm, r, b, name)
  IN Done(IF q.ok THEN "success" ELSE "access_violation", q.reg, b)

op_proc(mm, r, b) ==
  LET q == PUSH(mm, r, b, r.FRM)
  IN IF ~q.ok THEN Done("access_violation", q.reg, q.buf)
     ELSE Done("success", [q.reg EXCEPT !.FRM = q.reg.STK], q.buf)

op_ret(mm, r, b) ==
  LET q1 == POP(mm, r, b, "FRM")
      q2 == POP(mm, q1.reg, b, "CIP")
  IN IF ~q1.ok THEN Done("access_violation", q1.reg, b)
     ELSE Done(IF q2.ok THEN "success" ELSE "access_violation", q2.reg, b)

\* a RETN that leaves the arguments and their size cell on the stack
op_retn_keeps_arguments(mm, r, b) ==
  LET q1 == POP(mm, r, b, "FRM")
      q2 == POP(mm, q1.reg, b, "CIP")
  IN IF ~q1.ok THEN Done("access_violation", q1.reg, b)
     ELSE Done(IF q2.ok THEN "success" ELSE "access_violation", q2.reg, b)

op_retn(mm, r, b) ==
  LET q1 == POP(mm, r, b, "FRM")
      q2 == POP(mm, q1.reg, b, "CIP")
      p == data_v2p(mm, q2.reg, q2.reg.STK)
  IN IF ~q1.ok THEN Done("access_violation", q1.reg, b)
     ELSE IF ~q2.ok THEN Done("access_violation", q2.reg, b)
     ELSE IF p = null THEN Done("access_violation", q2.reg, b)
     ELSE Done("success",
               [q2.reg EXCEPT !.STK = cell(q2.reg.STK + rd(b, p) + cell_bytes)], b)

\* a branch that counts from the address behind the operand
branch_from_next(r, operand) == [r EXCEPT !.CIP = cell(r.CIP + operand)]

\* CIP - 2 * cell_bytes + operand
branch(r, operand) == [r EXCEPT !.CIP = cell(r.CIP - 2 * cell_bytes + operand + Modulus)]

\* a CALL that pushes the address of its own opcode
op_call_returns_to_itself(mm, r, b, operand) ==
  LET q == PUSH(mm, r, b, cell(r.CIP - 2 * cell_bytes + Modulus))
  IN IF ~q.ok THEN Done("access_violation", q.reg, q.buf)
     ELSE Done("success", branch(q.reg, operand), q.buf)

op_call(mm, r, b, operand) ==
  LET q == PUSH(mm, r, b, r.CIP)
  IN IF ~q.ok THEN Done("access_violation", q.reg, q.buf)
     ELSE Done("success", branch(q.reg, operand), q.buf)

\* v << n and v >> n of a cell promoted to int; a count of 32 or more is
\* undefined and gives what the shifter leaves: the count taken modulo 32
shl(v, n) == IF n % 32 >= cell_bits THEN 0 ELSE cell(v * 2 ^ (n % 32))
shr(v, n) == IF n % 32 >= cell_bits THEN 0 ELSE v \div 2 ^ (n % 32)
sshr(v, n) ==
  IF n % 32 >= cell_bits THEN (IF scell(v) < 0 THEN Modulus - 1 ELSE 0)
  ELSE cell(scell(v) \div 2 ^ (n % 32))

\* an OP_SDIV that divides before it tests the divisor, and loses ALT
op_sdiv_loses_dividend(r, b) ==
  IF r.PRI = 0 THEN Done("division_with_zero", [r EXCEPT !.ALT = 0], b)
  ELSE { [result |-> "success",
          reg |-> [r EXCEPT !.PRI = cell(o.q), !.ALT = cell(o.r)],
          buf |-> b, fire |-> NoFire]
         : o \in {x \in sdiv(cell_bits, scell(r.ALT), scell(r.PRI)) : ~x.trap} }

op_sdiv(r, b) ==
  IF r.PRI = 0 THEN Done("division_with_zero", r, b)
  ELSE { [result |-> IF o.trap THEN "killed" ELSE "success",
          reg |-> IF o.trap THEN r ELSE [r EXCEPT !.PRI = cell(o.q), !.ALT = cell(o.r)],
          buf |-> b, fire |-> NoFire]
         : o \in sdiv(cell_bits, scell(r.ALT), scell(r.PRI)) }

\* DATA(addr); ++RESULT() or --RESULT()
op_incdec_i(mm, r, b, addr, d) ==
  LET p == data_v2p(mm, r, addr)
  IN IF p = null THEN Done("access_violation", r, b)
     ELSE Done("success", r, wr(b, p, cell(rd(b, p) + d + Modulus)))

RECURSIVE op_movs(_, _, _, _, _)
op_movs(mm, r, b, operand, i) ==
  IF ~(i < operand) THEN Done("success", r, b)
  ELSE LET p1 == data_v2p(mm, r, r.PRI + i)
           p2 == data_v2p(mm, r, r.ALT + i)
       IN IF p1 = null \/ p2 = null THEN Done("access_violation", r, b)
          ELSE op_movs(mm, r, wr(b, p2, rd(b, p1)), operand, cell(i + cell_bytes))

RECURSIVE op_cmps(_, _, _, _, _)
op_cmps(mm, r, b, operand, i) ==
  IF ~(r.PRI = 0 /\ i < operand) THEN Done("success", r, b)
  ELSE LET p1 == data_v2p(mm, r, r.PRI + i)
           p2 == data_v2p(mm, r, r.ALT + i)
       IN IF p1 = null \/ p2 = null THEN Done("access_violation", r, b)
          ELSE op_cmps(mm, [r EXCEPT !.PRI = cell(rd(b, p2) - rd(b, p1) + Modulus)], b,
                       operand, cell(i + cell_bytes))

RECURSIVE op_fill(_, _, _, _, _)
op_fill(mm, r, b, operand, i) ==
  IF ~(i < operand) THEN Done("success", r, b)
  ELSE LET p == data_v2p(mm, r, r.ALT + i)
       IN IF p = null THEN Done("access_violation", r, b)
          ELSE op_fill(mm, r, wr(b, p, r.PRI), operand, cell(i + cell_bytes))

\* CODEDATA(v): a failed read of the code segment
CODEDATA_error == "access_violation"

RECURSIVE switch_records_last_match(_, _, _, _, _)
\* a loop over the records without the break: the last match wins
switch_records_last_match(mm, r, b, casetbl, record_count) ==
  IF record_count = 0 THEN Done("success", r, b)
  ELSE LET pt == code_v2p(mm, r, casetbl)
           pm == code_v2p(mm, r, cell(casetbl + cell_bytes))
           after == cell(casetbl + 2 * cell_bytes)
       IN IF pt = null \/ pm = null THEN Done(CODEDATA_error, r, b)
          ELSE switch_records_last_match(mm,
                 IF r.PRI = rd(b, pt)
                 THEN [r EXCEPT !.CIP = cell(after - cell_bytes * 2 + rd(b, pm) + Modulus)]
                 ELSE r,
                 b, after, record_count - 1)

RECURSIVE switch_records_from_own_cell(_, _, _, _, _)
\* a loop whose displacements count from their own cell
switch_records_from_own_cell(mm, r, b, casetbl, record_count) ==
  IF record_count = 0 THEN Done("success", r, b)
  ELSE LET pt == code_v2p(mm, r, casetbl)
           pm == code_v2p(mm, r, cell(casetbl + cell_bytes))
           after == cell(casetbl + 2 * cell_bytes)
       IN IF pt = null \/ pm = null THEN Done(CODEDATA_error, r, b)
          ELSE IF r.PRI = rd(b, pt)
          THEN Done("success",
                    [r EXCEPT !.CIP = cell(after - cell_bytes + rd(b, pm) + Modulus)], b)
          ELSE switch_records_from_own_cell(mm, r, b, after, record_count - 1)

RECURSIVE switch_records(_, _, _, _, _)
\* the while (record_count) loop of SWITCH; casetbl is past the default cell
switch_records(mm, r, b, casetbl, record_count) ==
  IF record_count = 0 THEN Done("success", r, b)
  ELSE LET pt == code_v2p(mm, r, casetbl)
           pm == code_v2p(mm, r, cell(casetbl + cell_bytes))
           after == cell(casetbl + 2 * cell_bytes)
       IN IF pt = null \/ pm = null THEN Done(CODEDATA_error, r, b)
          ELSE IF r.PRI = rd(b, pt)
          THEN Done("success",
                    [r EXCEPT !.CIP = cell(after - cell_bytes * 2 + rd(b, pm) + Modulus)], b)
          ELSE switch_records(mm, r, b, after, record_count - 1)

op_switch(mm, r, b, operand) ==
  LET casetbl == branch(r, operand).CIP
      p0 == code_v2p(mm, r, casetbl)
      p1 == code_v2p(mm, r, cell(casetbl + cell_bytes))
      p2 == code_v2p(mm, r, cell(casetbl + 2 * cell_bytes))
      after == cell(casetbl + 3 * cell_bytes)
  IN IF p0 = null THEN Done(CODEDATA_error, r, b)
     ELSE IF rd(b, p0) # OP_CASETBL THEN Done("invalid_operand", r, b)
     ELSE IF p1 = null \/ p2 = null THEN Done(CODEDATA_error, r, b)
     ELSE switch_records(mm,
            [r EXCEPT !.CIP = cell(after - cell_bytes * 2 + rd(b, p2) + Modulus)],
            b, after, rd(b, p1))

\* DATA(STK); operand = RESULT(); RESULT() = reg; reg = operand
op_swap(mm, r, b, name) ==
  LET p == data_v2p(mm, r, r.STK)
  IN IF p = null THEN Done("access_violation", r, b)
     ELSE Done("success", [r EXCEPT ![name] = rd(b, p)], wr(b, p, r[name]))

\* the switch (opcode) of step, entered after the opcode and operand fetches
exec(mm, op, operand, r, b) ==
  CASE op = "NOP" -> Done("success", r, b)
    [] op = "LOAD_PRI" -> op_load(mm, r, b, operand, "PRI")
    [] op = "LOAD_ALT" -> op_load(mm, r, b, operand, "ALT")
    [] op = "LOAD_S_PRI" -> op_load(mm, r, b, r.FRM + operand, "PRI")
    [] op = "LOAD_S_ALT" -> op_load(mm, r, b, r.FRM + operand, "ALT")
    [] op = "LREF_S_PRI" -> op_lref(mm, r, b, r.FRM + operand, "PRI")
    [] op = "LREF_S_ALT" -> op_lref(mm, r, b, r.FRM + operand, "ALT")
    [] op = "LOAD_I" -> op_load(mm, r, b, r.PRI, "PRI")
    [] op = "LODB_I" -> op_lodb_i(mm, r, b, operand)
    [] op = "CONST_PRI" -> Done("success", [r EXCEPT !.PRI = operand], b)
    [] op = "CONST_ALT" -> Done("success", [r EXCEPT !.ALT = operand], b)
    [] op = "ADDR_PRI" -> Done("success", [r EXCEPT !.PRI = cell(r.FRM + operand)], b)
    [] op = "ADDR_ALT" -> Done("success", [r EXCEPT !.ALT = cell(r.FRM + operand)], b)
    [] op = "STOR" -> op_stor(mm, r, b, operand, r.PRI)
    [] op = "STOR_S" -> op_stor(mm, r, b, r.FRM + operand, r.PRI)
    [] op = "SREF_S" -> op_sref(mm, r, b, r.FRM + operand, r.PRI)
    [] op = "STOR_I" -> op_stor(mm, r, b, r.ALT, r.PRI)
    [] op = "STRB_I" -> op_strb_i(mm, r, b, operand)
    [] op = "ALIGN_PRI" ->
         Done("success",
              IF operand < cell_bytes
              THEN [r EXCEPT !.PRI = BitOp("xor", r.PRI, cell_bytes - operand, cell_bits)]
              ELSE r, b)
    [] op = "LCTRL" -> op_lctrl(r, b, operand)
    [] op = "SCTRL" -> op_sctrl(r, b, operand)
    [] op = "XCHG" -> Done("success", [r EXCEPT !.ALT = r.PRI, !.PRI = r.ALT], b)
    [] op = "PUSH_PRI" -> op_push(mm, r, b, r.PRI)
    [] op = "PUSH_ALT" -> op_push(mm, r, b, r.ALT)
    [] op = "PUSHR_PRI" -> op_push(mm, r, b, r.PRI)
    [] op = "POP_PRI" -> op_pop(mm, r, b, "PRI")
    [] op = "POP_ALT" -> op_pop(mm, r, b, "ALT")
    [] op = "PICK" -> op_load(mm, r, b, r.STK + operand, "PRI")
    [] op = "STACK" ->
         Done("success",
              [r EXCEPT !.STK = cell(r.STK + operand), !.ALT = cell(r.STK + operand)], b)
    [] op = "HEAP" ->
         Done("success", [r EXCEPT !.ALT = r.HEA, !.HEA = cell(r.HEA + operand)], b)
    [] op = "PROC" -> op_proc(mm, r, b)
    [] op = "RET" -> op_ret(mm, r, b)
    [] op = "RETN" -> op_retn(mm, r, b)
    [] op = "CALL" -> op_call(mm, r, b, operand)
    [] op = "JUMP" -> Done("success", branch(r, operand), b)
    [] op = "JZER" -> Done("success", IF r.PRI = 0 THEN branch(r, operand) ELSE r, b)
    [] op = "JNZ" -> Done("success", IF r.PRI # 0 THEN branch(r, operand) ELSE r, b)
    [] op = "SHL" -> Done("success", [r EXCEPT !.PRI = shl(r.PRI, r.ALT)], b)
    [] op = "SHR" -> Done("success", [r EXCEPT !.PRI = shr(r.PRI, r.ALT)], b)
    [] op = "SSHR" -> Done("success", [r EXCEPT !.PRI = sshr(r.PRI, r.ALT)], b)
    [] op = "SHL_C_PRI" -> Done("success", [r EXCEPT !.PRI = shl(r.PRI, operand)], b)
    [] op = "SHL_C_ALT" -> Done("success", [r EXCEPT !.ALT = shl(r.ALT, operand)], b)
    [] op = "SMUL" ->
         Done("success", [r EXCEPT !.PRI = cell(scell(r.PRI) * scell(r.ALT))], b)
    [] op = "SDIV" -> op_sdiv(r, b)
    [] op = "ADD" -> Done("success", [r EXCEPT !.PRI = cell(r.PRI + r.ALT)], b)
    [] op = "SUB" -> Done("success", [r EXCEPT !.PRI = cell(r.ALT - r.PRI + Modulus)], b)
    [] op = "AND" -> Done("success", [r EXCEPT !.PRI = BitOp("and", r.PRI, r.ALT, cell_bits)], b)
    [] op = "OR" -> Done("success", [r EXCEPT !.PRI = BitOp("or", r.PRI, r.ALT, cell_bits)], b)
    [] op = "XOR" -> Done("success", [r EXCEPT !.PRI = BitOp("xor", r.PRI, r.ALT, cell_bits)], b)
    [] op = "NOT" -> Done("success", [r EXCEPT !.PRI = IF r.PRI = 0 THEN 1 ELSE 0], b)
    [] op = "NEG" -> Done("success", [r EXCEPT !.PRI = cell(Modulus - r.PRI)], b)
    [] op = "INVERT" -> Done("success", [r EXCEPT !.PRI = Modulus - 1 - r.PRI], b)
    [] op = "EQ" -> Done("success", [r EXCEPT !.PRI = IF r.PRI = r.ALT THEN 1 ELSE 0], b)
    [] op = "NEQ" -> Done("success", [r EXCEPT !.PRI = IF r.PRI # r.ALT THEN 1 ELSE 0], b)
    [] op = "SLESS" ->
         Done("success", [r EXCEPT !.PRI = IF scell(r.PRI) < scell(r.ALT) THEN 1 ELSE 0], b)
    [] op = "SLEQ" ->
         Done("success", [r EXCEPT !.PRI = IF scell(r.PRI) <= scell(r.ALT) THEN 1 ELSE 0], b)
    [] op = "SGRTR" ->
         Done("success", [r EXCEPT !.PRI = IF scell(r.PRI) > scell(r.ALT) THEN 1 ELSE 0], b)
    [] op = "SGEQ" ->
         Done("success", [r EXCEPT !.PRI = IF scell(r.PRI) >= scell(r.ALT) THEN 1 ELSE 0], b)
    [] op = "INC_PRI" -> Done("success", [r EXCEPT !.PRI = cell(r.PRI + 1)], b)
    [] op = "INC_ALT" -> Done("success", [r EXCEPT !.ALT = cell(r.ALT + 1)], b)
    [] op = "INC_I" -> op_incdec_i(mm, r, b, r.PRI, 1)
    [] op = "DEC_PRI" -> Done("success", [r EXCEPT !.PRI = cell(r.PRI - 1 + Modulus)], b)
    [] op = "DEC_ALT" -> Done("success", [r EXCEPT !.ALT = cell(r.ALT - 1 + Modulus)], b)
    [] op = "DEC_I" -> op_incdec_i(mm, r, b, r.PRI, -1)
    [] op = "MOVS" -> op_movs(mm, r, b, operand, 0)
    [] op = "CMPS" -> op_cmps(mm, [r EXCEPT !.PRI = 0], b, operand, 0)
    [] op = "FILL" -> op_fill(mm, r, b, operand, 0)
    [] op = "HALT" -> Done("halt", [r EXCEPT !.PRI = operand], b)
    [] op = "BOUNDS" -> Done(IF r.PRI > operand THEN "bounds" ELSE "success", r, b)
    [] op = "SYSREQ" -> Fire(operand, r, b)
    [] op = "SWITCH" -> op_switch(mm, r, b, operand)
    [] op = "SWAP_PRI" -> op_swap(mm, r, b, "PRI")
    [] op = "SWAP_ALT" -> op_swap(mm, r, b, "ALT")
    [] op = "BREAK" -> Fire(cbid_break, r, b)
    [] OTHER -> Done("invalid_instruction", r, b)

\* the name of the opcode at CIP, "?" when it cannot be fetched or is unknown
opcode_at(mm, r, b) ==
  LET p == code_v2p(mm, r, r.CIP)
  IN IF p = null THEN "?"
     ELSE IF rd(b, p) < OP_NUM_OPCODES THEN opcode_names[rd(b, p) + 1] ELSE "?"

\* OPERAND(): a failed fetch of the operand
OPERAND_error == "access_violation_code"

\* amx::step: the outcomes of one instruction decode
step(mm, r, b) ==
  LET p0 == code_v2p(mm, r, r.CIP)
      r1 == INC(r, "CIP")
      op == opcode_at(mm, r, b)
      p1 == code_v2p(mm, r1, r1.CIP)
      r2 == INC(r1, "CIP")
  IN IF p0 = null THEN Done("access_violation_code", r1, b)
     ELSE IF op \in operand_ops
     THEN (IF p1 = null THEN Done(OPERAND_error, r2, b)
           ELSE exec(mm, op, rd(b, p1), r2, b))
     ELSE exec(mm, op, 0, r1, b)

(***************************************************************************)
(* The public stack primitives and the entry point                         *)
(***************************************************************************)
\* a push that stores at STK before it moves STK down
push_then_move(mm, r, b, v) ==
  LET target == data_v2p(mm, r, r.STK)
  IN [ok |-> target # null, reg |-> DEC(r, "STK"),
      buf |-> IF target = null THEN b ELSE wr(b, target, v)]

\* a push that leaves STK where it was when the target does not translate
push_undone_on_failure(mm, r, b, v) ==
  LET r1 == DEC(r, "STK")
      target == data_v2p(mm, r1, r1.STK)
  IN [ok |-> target # null, reg |-> IF target = null THEN r ELSE r1,
      buf |-> IF target = null THEN b ELSE wr(b, target, v)]

push(mm, r, b, v) ==
  LET r1 == DEC(r, "STK")
      target == data_v2p(mm, r1, r1.STK)
  IN [ok |-> target # null, reg |-> r1,
      buf |-> IF target = null THEN b ELSE wr(b, target, v)]

\* pop(cell& v): the host's v is not part of the machine
pop(mm, r, b) ==
  LET target == data_v2p(mm, r, r.STK)
  IN IF target = null THEN [ok |-> FALSE, reg |-> r] ELSE [ok |-> TRUE, reg |-> INC(r, "STK")]

\* the value of a singleton set: what a local of the code holds once assigned
the(S) == CHOOSE x \in S : TRUE

RECURSIVE push_args_last_first(_, _, _, _, _)
\* a loop that pushes the last argument first
push_args_last_first(mm, r, b, args, size) ==
  IF args = << >> THEN [ok |-> TRUE, reg |-> r, buf |-> b, size |-> size]
  ELSE the({ IF ~q.ok THEN [ok |-> FALSE, reg |-> q.reg, buf |-> q.buf, size |-> size]
             ELSE push_args_last_first(mm, q.reg, q.buf, SubSeq(args, 1, Len(args) - 1),
                                       cell(size + cell_bytes))
             : q \in {push(mm, r, b, args[Len(args)])} })

RECURSIVE push_args(_, _, _, _, _)
\* the for loop of call: pushes args in the order given, counting size
push_args(mm, r, b, args, size) ==
  IF args = << >> THEN [ok |-> TRUE, reg |-> r, buf |-> b, size |-> size]
  ELSE the({ IF ~q.ok THEN [ok |-> FALSE, reg |-> q.reg, buf |-> q.buf, size |-> size]
             ELSE push_args(mm, q.reg, q.buf, Tail(args), cell(size + cell_bytes))
             : q \in {push(mm, r, b, Head(args))} })

invalid_cip == 0

\* a call_raw that pushes no return address
call_raw_without_sentinel(mm, r, b, cip) ==
  [result |-> "success", reg |-> [r EXCEPT !.CIP = cip], buf |-> b, raw |-> TRUE]

\* call_raw up to its loop: the sentinel push and CIP = cip
call_raw(mm, r, b, cip) ==
  the({ [result |-> IF q.ok THEN "success" ELSE "access_violation",
         reg |-> [q.reg EXCEPT !.CIP = cip], buf |-> q.buf, raw |-> TRUE]
        : q \in {push(mm, r, b, invalid_cip)} })

\* the push of size and what follows it in call
call_sized(mm, a, cip) ==
  the({ IF ~s.ok
        THEN [result |-> "access_violation", reg |-> s.reg, buf |-> s.buf, raw |-> FALSE]
        ELSE call_raw(mm, s.reg, s.buf, cip)
        : s \in {push(mm, a.reg, a.buf, a.size)} })

\* call up to the loop of call_raw; raw says whether call_raw was reached
call(mm, r, b, cip, args) ==
  the({ IF ~a.ok
        THEN [result |-> "access_violation", reg |-> a.reg, buf |-> a.buf, raw |-> FALSE]
        ELSE call_sized(mm, a, cip)
        : a \in {push_args(mm, r, b, args, 0)} })

(***************************************************************************)
(* Bounds of the model                                                     *)
(***************************************************************************)
\* instructions decoded in one behaviour
MaxSteps == 12
\* operations the host's callbacks perform on the machine in one behaviour
MaxCbOps == 1
\* arguments given to call
MaxArgs == 2
\* cells of heap and stack space behind the data image
MaxStack == 6

(***************************************************************************)
(* State                                                                   *)
(***************************************************************************)
VARIABLES
  reg,             \* the register file PRI .. HEA
  buf,             \* the loader's _code and _data vectors, by name
  mem,             \* amx::mem, the page slots of the backing
  calls,           \* the activations of call, innermost last
  on_single_step,  \* whether the loader has a single-step hook
  on_break,        \* whether the loader has a break hook
  natives,         \* the loader's _natives vector
  publics,         \* the code addresses in the loader's _publics
  steps,           \* instructions decoded so far
  cbops,           \* operations of callbacks so far
  probe            \* the inputs and the outcome of an operation applied on its own

vars == << reg, buf, mem, calls, on_single_step, on_break, natives, publics, steps, cbops,
          probe >>

\* no operation is applied on its own
idle == [op |-> "none"]

\* retval before call has assigned it
Unset == -1

saved_registers == {"ALT", "FRM", "CIP", "STP", "STK"}

top == calls[Len(calls)]
depth == Len(calls)

\* a new activation of call(cip, retval, args) entered with registers r and
\* buffers b
activation(cip, args, r, b) ==
  [pc |-> "loop",        \* loop: at fire_callback(cbid_single_step); step: at step();
                         \* cb: host code runs inside fire_callback; done: returned
   from |-> "loop",      \* where fire_callback was called from: loop or step
   index |-> 0,          \* the index given to fire_callback
   host |-> "none",      \* the host code the broker dispatched to
   saved |-> [n \in saved_registers |-> 0],   \* alt, frm, cip, stp, stk of fire_callback
   result |-> "success", \* what call returned
   retval |-> Unset,     \* what call left in its retval
   cip |-> cip, args |-> args,
   entry |-> r,          \* the registers when call was entered
   pre |-> r,            \* the registers when fire_callback was last entered
   nss |-> 0,            \* callbacks fired with cbid_single_step
   nloop |-> 0,          \* of these, by the loop of call_raw
   nins |-> 0,           \* calls of step
   sscip |-> 0,          \* CIP when the loop last fired the single-step callback
   how |-> "setup",      \* what ended the call: setup, entry, step, callback
   lastop |-> "?",       \* the opcode step decoded last
   lastcip |-> 0,        \* the CIP it was decoded at
   ncalls |-> 0,         \* the CALLs step decoded
   called |-> r,         \* the registers when step last decoded a CALL
   at0 |-> FALSE,        \* whether step ever decoded at code offset 0
   entrybuf |-> b,       \* the buffers when call was entered
   cbreg |-> r,          \* the registers when the last callback returned
   did |-> {},           \* what the host code did in the current callback
   nested |-> "none",    \* what the last nested call of that callback returned
   cbres |-> "none",     \* what fire_callback returned last
   argc |-> Unset,       \* the argc and argv the broker gave the native it
   argv |-> Unset,       \* called last
   primitive |-> "none"] \* what the last push or pop of host code returned

returned(f, how, res, retval) ==
  [f EXCEPT !.pc = "done", !.how = how, !.result = res, !.retval = retval]

\* a loop that goes on while step succeeds, whatever CIP is
after_step_any_cip(f, res, r) ==
  IF res = "success" THEN [f EXCEPT !.pc = "loop"]
  ELSE returned(f, "step", res, r.PRI)

\* the loop condition of call_raw after step returned res with registers r
after_step(f, res, r) ==
  IF res = "success" /\ r.CIP # invalid_cip THEN [f EXCEPT !.pc = "loop"]
  ELSE returned(f, "step", res, r.PRI)

\* a loop that goes on to step whatever the single-step callback returned
resume_unchecked(f, res, r) ==
  LET g == [f EXCEPT !.cbres = res, !.host = "none", !.did = {}, !.nested = "none"]
  IN IF f.from = "step" THEN after_step(g, res, r) ELSE [g EXCEPT !.pc = "step"]

\* the call of call_raw goes on after fire_callback returned res
resume(f, res, r) ==
  LET g == [f EXCEPT !.cbres = res, !.host = "none", !.did = {}, !.nested = "none"]
  IN IF f.from = "step" THEN after_step(g, res, r)
     ELSE IF res # "success" THEN returned(g, "callback", res, r.PRI)
     ELSE [g EXCEPT !.pc = "step"]

\* loader::amx_callback: the host code an index is dispatched to, or the
\* result the broker returns by itself
amx_callback(mm, r, index, stk, ss, br, nat) ==
  IF index = cbid_single_step
  THEN [host |-> IF ss THEN "single_step" ELSE "none", result |-> "success"]
  ELSE IF index = cbid_break
  THEN [host |-> IF br THEN "break" ELSE "none", result |-> "success"]
  ELSE IF index > Len(nat) THEN [host |-> "none", result |-> "invalid_operand"]
  ELSE IF data_v2p(mm, r, stk) = null THEN [host |-> "none", result |-> "access_violation"]
  ELSE IF index < Len(nat) THEN [host |-> nat[index + 1], result |-> "success"]
  ELSE [host |-> "past_the_end", result |-> "success"]

\* a broker that gives the native the cell at stk as argc
native_arguments_in_bytes(mm, r, b, stk) ==
  [argc |-> rd(b, data_v2p(mm, r, stk)), argv |-> cell(stk + cell_bytes)]

\* the argc and argv loader::amx_callback gives the native: *pargc /
\* sizeof(cell) and stk + sizeof(cell)
native_arguments(mm, r, b, stk) ==
  [argc |-> rd(b, data_v2p(mm, r, stk)) \div cell_bytes, argv |-> cell(stk + cell_bytes)]

\* fire_callback(index) called from `from` with registers r: the activation
\* either waits in host code or goes on with the broker's own result
fire_callback(f, from, index, r) ==
  LET d == amx_callback(mem, r, index, r.STK, on_single_step, on_break, natives)
      native == d.host \notin {"none", "single_step", "break"}
      g == [f EXCEPT !.from = from, !.index = index, !.host = d.host, !.pre = r,
                     !.argc = IF native THEN native_arguments(mem, r, buf, r.STK).argc ELSE @,
                     !.argv = IF native THEN native_arguments(mem, r, buf, r.STK).argv ELSE @,
                     !.cbreg = r, !.did = {}, !.nested = "none",
                     !.saved = [n \in saved_registers |-> r[n]],
                     !.nss = IF index = cbid_single_step THEN @ + 1 ELSE @,
                     !.nloop = IF from = "loop" THEN @ + 1 ELSE @,
                     !.sscip = IF from = "loop" THEN r.CIP ELSE @]
  IN IF d.host = "none" THEN resume(g, d.result, r) ELSE [g EXCEPT !.pc = "cb"]

\* a fire_callback that does not put STK back
restore_but_stk(f, r) ==
  [n \in Registers |-> IF n \in saved_registers \ {"STK"} THEN f.saved[n] ELSE r[n]]

\* a fire_callback that puts back every register but PRI
restore_all_but_pri(f, r) ==
  [n \in Registers |-> IF n = "PRI" THEN r[n] ELSE f.pre[n]]

\* the registers fire_callback restores after the callback
restore(f, r) == [n \in Registers |-> IF n \in saved_registers THEN f.saved[n] ELSE r[n]]

(***************************************************************************)
(* Code images                                                             *)
(***************************************************************************)
\* the HALT the compiler puts at code address 0
halt0 == << OP("HALT"), 0 >>
\* the cell holding -k
minus(k) == Modulus - k

\* stack-balanced fragments whose HEAP operands sum to zero; the local of the
\* third is the cell below FRM
fragments ==
  { << OP("PUSH_PRI"), OP("POP_ALT") >>,
    << OP("HEAP"), 4, OP("HEAP"), minus(4) >>,
    << OP("STACK"), minus(cell_bytes), OP("CONST_PRI"), 7, OP("STOR_S"), minus(cell_bytes),
       OP("STACK"), cell_bytes >>,
    << OP("PUSH_ALT"), OP("SWAP_PRI"), OP("POP_ALT") >> }

\* fragments in a row in one body
MaxBody == 2

RECURSIVE bodies(_)
bodies(n) ==
  IF n = 0 THEN { << >> }
  ELSE bodies(n - 1) \cup { x \o y : x \in bodies(n - 1), y \in fragments }

\* PROC, body, RETN at code address 4, behind the HALT
proc_retn(body) ==
  [code |-> halt0 \o << OP("PROC") >> \o body \o << OP("RETN") >>, publics |-> {4}]

\* a public at 4 that fires a callback, and the public get_two at 12
get_two == << OP("PROC"), OP("CONST_PRI"), 2, OP("RETN") >>
sysreq(index) ==
  [code |-> halt0 \o << OP("PROC"), OP("SYSREQ"), index, OP("RETN") >> \o get_two,
   publics |-> {4, 12}]
break == [code |-> halt0 \o << OP("PROC"), OP("BREAK"), OP("NOP"), OP("RETN") >> \o get_two,
          publics |-> {4, 12}]

\* publics that end by HALT, by an error of step, and by a jump to address 0
halts == [code |-> halt0 \o << OP("PROC"), OP("HALT"), 5 >>, publics |-> {4}]
divides == [code |-> halt0 \o << OP("PROC"), OP("SDIV") >>, publics |-> {4}]
jumps == [code |-> halt0 \o << OP("PROC"), OP("JUMP"), minus(6) >>, publics |-> {4}]

\* a public that calls native 0 with the argument 33 as compiled code does,
\* and one that calls it after moving STK out of the data segment
native_call ==
  [code |-> halt0 \o << OP("PROC"), OP("CONST_PRI"), 33, OP("PUSH_PRI"),
                        OP("CONST_PRI"), cell_bytes, OP("PUSH_PRI"),
                        OP("SYSREQ"), 0, OP("STACK"), 2 * cell_bytes, OP("RETN") >>,
   publics |-> {4}]
stack_lost ==
  [code |-> halt0 \o << OP("PROC"), OP("STACK"), page_size, OP("SYSREQ"), 0, OP("RETN") >>,
   publics |-> {4}]
\* a public that pops after moving STK out of the data segment
pops_nothing ==
  [code |-> halt0 \o << OP("PROC"), OP("STACK"), page_size, OP("POP_ALT"), OP("RETN") >>,
   publics |-> {4}]

Programs ==
  { sysreq(0), sysreq(1), sysreq(2), sysreq(cbid_single_step), break,
    halts, divides, jumps, proc_retn(<< >>), native_call, stack_lost, pops_nothing }

\* the arguments a host gives to call: the first n of 11, 22, 33, ...
arguments(n) == [k \in 1 .. n |-> 11 * k]

RECURSIVE pushes(_)
\* code that pushes the cells of a sequence, the last one first
pushes(cells) ==
  IF cells = << >> THEN << >>
  ELSE pushes(Tail(cells)) \o << OP("CONST_PRI"), cells[1], OP("PUSH_PRI") >>

\* a public at 4 that calls a function as compiled code does: it pushes k
\* arguments and their size in bytes, executes CALL, and halts where the
\* function returns to; the function is PROC, body, and RET or RETN
calls_function(k, body, return) ==
  [code |-> halt0 \o << OP("PROC") >> \o pushes(<< k * cell_bytes >> \o arguments(k))
              \o << OP("CALL"), 4 * cell_bytes, OP("HALT"), 7 >>
              \o << OP("PROC") >> \o body \o << OP(return) >>,
   publics |-> {4}]

\* the data image of every module: two initialised cells
data_image == << 100, 200 >>

\* the end of init: the code and data vectors are mapped and the registers
\* set; a failed map leaves the registers, and the table behind the maps
\* that succeeded
install(m, r, code, data, data_oldsize) ==
  the({ IF ~c.ok THEN [ok |-> FALSE, mem |-> m, reg |-> r]
        ELSE the({ IF ~d.ok THEN [ok |-> FALSE, mem |-> with_code(m, c.m), reg |-> r]
                   ELSE [ok |-> TRUE,
                         mem |-> with_data(with_code(m, c.m), d.m),
                         reg |-> [r EXCEPT !.DAT = d.va, !.COD = c.va,
                                           !.STP = cell((Len(data) - 1) * cell_bytes),
                                           !.STK = cell((Len(data) - 1) * cell_bytes),
                                           !.HEA = cell(data_oldsize * cell_bytes)]]
                   : d \in {map(data_backing(with_code(m, c.m)),
                                [buf |-> "data", idx |-> 0], Len(data))} })
        : c \in {map(code_backing(m), [buf |-> "code", idx |-> 0], Len(code))} })

\* the registers of a machine that was constructed
no_registers ==
  [PRI |-> 0, ALT |-> 0, FRM |-> 0, CIP |-> 0, DAT |-> 0, COD |-> 0,
   STP |-> 0, STK |-> 0, HEA |-> 0]

\* loader::init from the images on, on a machine that was constructed
bring_up(code, data, data_oldsize) ==
  install(no_mappings, no_registers, code, data, data_oldsize)

\* a module loaded with `extra` cells of heap and stack space
loaded(prog, extra) ==
  LET data == data_image \o [k \in 1 .. extra |-> 0]
      up == bring_up(prog.code, data, Len(data_image))
  IN /\ buf = [code |-> prog.code, data |-> data]
     /\ mem = up.mem
     /\ reg = up.reg
     /\ publics = prog.publics
     /\ natives = << "native" >>
     /\ calls = << >>
     /\ steps = 0
     /\ cbops = 0
     /\ probe = idle

\* the break hook is read by BREAK alone
Init ==
  \E prog \in Programs, extra \in {1, MaxStack} :
    /\ loaded(prog, extra)
    /\ on_single_step \in BOOLEAN
    /\ on_break \in (IF prog = break THEN BOOLEAN ELSE {FALSE})

(***************************************************************************)
(* Operations                                                              *)
(***************************************************************************)
\* the value a callback assigns to a register
CallbackValue == 6
\* the registers a callback assigns to in one go
CallbackWrites == { {"PRI"}, saved_registers, {"HEA"}, {"COD", "DAT"} }
\* what a callback returns
CallbackResults == {"success", "callback_abort", "halt"}

SetTop(f) == [calls EXCEPT ![Len(calls)] = f]
in_callback == depth > 0 /\ top.pc = "cb" /\ cbops < MaxCbOps

\* the host, or a callback, calls call(cip, retval, args)
Call(cip, args) ==
  /\ depth = 0 \/ (in_callback /\ depth = 1)
  /\ \E c \in {call(mem, reg, buf, cip, args)} :
     LET f == activation(cip, args, reg, buf)
     IN /\ reg' = c.reg
        /\ buf' = c.buf
        /\ calls' = Append(IF depth = 0 THEN calls ELSE SetTop([top EXCEPT !.did = @ \cup {"call"}]),
             IF ~c.raw THEN returned(f, "setup", c.result, Unset)
             ELSE IF c.result # "success" THEN returned(f, "setup", c.result, c.reg.PRI)
             ELSE IF cip = invalid_cip THEN returned(f, "entry", "success", c.reg.PRI)
             ELSE f)
  /\ cbops' = IF depth = 0 THEN cbops ELSE cbops + 1
  /\ UNCHANGED << mem, on_single_step, on_break, natives, publics, steps, probe >>

\* the host calls a public, or address 0, with up to MaxArgs arguments
HostCall(cip, args) == depth = 0 /\ Call(cip, args)

\* a native calls a public with one argument, as five does
NativeCall(cip) == depth > 0 /\ Call(cip, arguments(1))

\* a nested call returns to the callback that made it
CallReturn ==
  /\ depth > 1
  /\ top.pc = "done"
  /\ calls' = [SubSeq(calls, 1, depth - 1) EXCEPT ![depth - 1].nested = top.result]
  /\ UNCHANGED << reg, buf, mem, on_single_step, on_break, natives, publics, steps, cbops, probe >>

\* the loop of call_raw fires the single-step callback
SingleStep ==
  /\ depth > 0
  /\ top.pc = "loop"
  /\ calls' = SetTop(fire_callback(top, "loop", cbid_single_step, reg))
  /\ UNCHANGED << reg, buf, mem, on_single_step, on_break, natives, publics, steps, cbops, probe >>

\* the loop of call_raw calls step
Step ==
  /\ depth > 0
  /\ top.pc = "step"
  /\ steps < MaxSteps
  /\ \E o \in step(mem, reg, buf) :
       LET f == [top EXCEPT !.nins = @ + 1, !.lastop = opcode_at(mem, reg, buf),
                            !.lastcip = reg.CIP, !.at0 = @ \/ reg.CIP = invalid_cip,
                            !.ncalls = IF opcode_at(mem, reg, buf) = "CALL" THEN @ + 1 ELSE @,
                            !.called = IF opcode_at(mem, reg, buf) = "CALL" THEN reg ELSE @]
       IN /\ reg' = o.reg
          /\ buf' = o.buf
          /\ calls' = SetTop(IF o.fire = NoFire THEN after_step(f, o.result, o.reg)
                             ELSE fire_callback(f, "step", o.fire, o.reg))
  /\ steps' = steps + 1
  /\ UNCHANGED << mem, on_single_step, on_break, natives, publics, cbops, probe >>

\* host code in a callback assigns to the registers of a group (a native's
\* retval is PRI)
CbWrite(names) ==
  /\ in_callback
  /\ reg' = [n \in Registers |-> IF n \in names THEN CallbackValue ELSE reg[n]]
  /\ calls' = SetTop([top EXCEPT !.did = @ \cup {"write"}])
  /\ cbops' = cbops + 1
  /\ UNCHANGED << buf, mem, on_single_step, on_break, natives, publics, steps, probe >>

\* host code in a callback calls push
CbPush ==
  /\ in_callback
  /\ \E q \in {push(mem, reg, buf, CallbackValue)} :
       /\ reg' = q.reg
       /\ buf' = q.buf
       /\ calls' = SetTop([top EXCEPT !.did = @ \cup {"push"},
                                      !.primitive = IF q.ok THEN "success"
                                                    ELSE "access_violation"])
  /\ cbops' = cbops + 1
  /\ UNCHANGED << mem, on_single_step, on_break, natives, publics, steps, probe >>

\* host code in a callback calls pop
CbPop ==
  /\ in_callback
  /\ \E q \in {pop(mem, reg, buf)} :
       /\ reg' = q.reg
       /\ calls' = SetTop([top EXCEPT !.did = @ \cup {"pop"},
                                      !.primitive = IF q.ok THEN "success"
                                                    ELSE "access_violation"])
  /\ cbops' = cbops + 1
  /\ UNCHANGED << buf, mem, on_single_step, on_break, natives, publics, steps, probe >>

\* the callback returns res to fire_callback, which restores and returns it
CbReturn(res) ==
  /\ depth > 0
  /\ top.pc = "cb"
  /\ reg' = restore(top, reg)
  /\ calls' = SetTop(resume([top EXCEPT !.cbreg = reg], res, restore(top, reg)))
  /\ UNCHANGED << buf, mem, on_single_step, on_break, natives, publics, steps, cbops, probe >>

Next ==
  \/ \E cip \in publics \cup {invalid_cip}, n \in 0 .. MaxArgs : HostCall(cip, arguments(n))
  \/ \E cip \in publics : NativeCall(cip)
  \/ CallReturn
  \/ SingleStep
  \/ Step
  \/ \E names \in CallbackWrites : CbWrite(names)
  \/ CbPush
  \/ CbPop
  \/ \E res \in CallbackResults : CbReturn(res)

Spec == Init /\ [][Next]_vars

(***************************************************************************)
(* The test suite's configuration: no hooks, publics of the form PROC,     *)
(* stack-balanced body, RETN                                               *)
(***************************************************************************)
InitTest ==
  /\ \/ \E body \in bodies(MaxBody) : loaded(proc_retn(body), MaxStack)
     \/ \E k \in 0 .. MaxArgs, body \in bodies(1), return \in {"RET", "RETN"} :
          loaded(calls_function(k, body, return), MaxStack + MaxArgs)
  /\ on_single_step = FALSE
  /\ on_break = FALSE

NextTest ==
  \/ \E cip \in publics, n \in 0 .. MaxArgs : HostCall(cip, arguments(n))
  \/ SingleStep
  \/ Step

SpecTest == InitTest /\ [][NextTest]_vars

(***************************************************************************)
(* How a call ends                                                         *)
(***************************************************************************)
\* the entry function returned to the sentinel, or jumped to address 0
WayReturn(f, r) ==
  /\ f.how = "step"
  /\ f.result = "success"
  /\ f.lastop # "HALT"
  /\ r.CIP = invalid_cip

\* a HALT was executed: retval is its operand
WayHalt(f, r, b) ==
  /\ f.how = "step"
  /\ f.result = "halt"
  /\ f.lastop = "HALT"
  /\ f.retval = rd(b, code_v2p(mem, r, cell(f.lastcip + cell_bytes)))

\* a step or a callback returned an error, and the call returned that error
WayError(f) ==
  /\ f.how \in {"step", "callback"}
  /\ f.result # "success"
  /\ f.lastop # "HALT"
  /\ f.how = "callback" => f.result = f.cbres
  /\ f.result = "halt" => f.cbres = "halt"

ThreeWays(f, r, b) ==
  /\ WayReturn(f, r) \/ WayHalt(f, r, b) \/ WayError(f)
  /\ f.retval = r.PRI
  /\ ~f.at0

\* C1, as stated: every call that has ended ended in one of the three ways
\* (return to the sentinel with success, HALT with retval = operand, an error
\* of a step or a callback), with retval = PRI and without an instruction at
\* code offset 0 having been executed.
EveryCallEndsInThreeWays ==
  (depth > 0 /\ top.pc = "done") => ThreeWays(top, reg, buf)

\* C1, amended: a call whose set-up pushes all succeeded and whose target is
\* not address 0 ends in exactly one of the three ways, with retval = PRI at
\* the exit of the loop and without an instruction at code offset 0 having
\* been executed.
StartedCallEndsInThreeWays ==
  (depth > 0 /\ top.pc = "done" /\ top.how # "setup" /\ top.cip # invalid_cip)
    => ThreeWays(top, reg, buf)

\* a call ended by HALT 5 with retval 5
HaltedCall ==
  /\ depth > 0
  /\ top.pc = "done"
  /\ WayHalt(top, reg, buf)
  /\ top.retval = 5

(***************************************************************************)
(* The set-up of a call                                                    *)
(***************************************************************************)
\* the data cell at address a, or Unset when a does not translate
data_cell(r, b, a) ==
  LET p == data_v2p(mem, r, cell(a)) IN IF p = null THEN Unset ELSE rd(b, p)

\* one of the n + 2 cells below the STK of entry does not translate
setup_fails(f) ==
  \E j \in 1 .. Len(f.args) + 2 :
    data_v2p(mem, f.entry, cell(f.entry.STK - j * cell_bytes)) = null

\* the loop of call_raw is entered: the first instruction begins
first_begins(f) == f.pc = "loop" /\ f.nloop = 0

\* the stack call leaves for the first instruction
setup_layout(f, r, b) ==
  LET n == Len(f.args)
  IN /\ r.STK = cell(f.entry.STK - (n + 2) * cell_bytes)
     /\ r.CIP = f.cip
     /\ data_cell(r, b, r.STK) = 0
     /\ data_cell(r, b, r.STK + cell_bytes) = n * cell_bytes
     /\ \A k \in 1 .. n :
          data_cell(r, b, r.STK + (1 + k) * cell_bytes) = f.args[n + 1 - k]

\* C3: when the first instruction of a call begins, the cell at STK is the
\* sentinel 0, the cell above it holds n*cell_bytes and the cell at
\* STK+(1+k)*cell_bytes is the k-th argument counted from the last one given;
\* when one of the pushes fails, call has returned access_violation and no
\* instruction and no callback of that call was executed.
CallSetup ==
  \A i \in 1 .. depth :
    LET f == calls[i]
    IN /\ setup_fails(f) =>
            /\ f.pc = "done" /\ f.how = "setup"
            /\ f.result = "access_violation"
            /\ f.nins = 0 /\ f.nss = 0
       /\ (i = depth /\ first_begins(f)) => (~setup_fails(f) /\ setup_layout(f, reg, buf))

\* the first instruction of a call with at least two arguments begins
TwoArgumentsPushed ==
  /\ depth > 0
  /\ first_begins(top)
  /\ Len(top.args) >= 2
  /\ setup_layout(top, reg, buf)

(***************************************************************************)
(* Callbacks                                                               *)
(***************************************************************************)
\* the last callback of activation f returned an error
callback_failed(f) == f.cbres \notin {"none", "success"}

\* C4: once a callback (single-step hook, break hook, native, or the broker
\* itself) has returned something other than success, the enclosing call has
\* returned exactly that error, and the activation never changes again: no
\* further instruction and no further single-step callback of that call.
CallbackErrorEndsCall ==
  [][\A i \in 1 .. depth' :
       callback_failed(calls'[i]) =>
         /\ calls'[i].pc = "done"
         /\ calls'[i].result = calls'[i].cbres
         /\ (i <= depth /\ callback_failed(calls[i])) => calls'[i] = calls[i]]_vars

\* a native reached through SYSREQ returned callback_abort and ended the call
NativeAborted ==
  /\ depth > 0
  /\ top.pc = "done"
  /\ top.from = "step"
  /\ top.lastop = "SYSREQ"
  /\ top.cbres = "callback_abort"
  /\ top.result = "callback_abort"

\* host code returns from the callback of the innermost activation
callback_returns == depth > 0 /\ top.pc = "cb" /\ depth' = depth /\ top'.pc # "cb"

\* C5: when a callback returns, whatever it did to the machine, ALT, FRM,
\* CIP, STP and STK have the values they had just before it was invoked.
SavedRegistersRestored ==
  [][callback_returns => \A n \in saved_registers : reg'[n] = top.pre[n]]_vars

\* a callback that had moved STK returned success, and the call goes on with
\* the STK from before the callback
StkRestored ==
  /\ depth > 0
  /\ top.pc = "step"
  /\ top.cbres = "success"
  /\ top.cbreg.STK # top.pre.STK
  /\ reg.STK = top.pre.STK

\* C6, as stated: when a callback returns, every register other than PRI,
\* HEA, COD and DAT included, has its value from before the callback.
WritesConfinedToPRI ==
  [][callback_returns => \A n \in Registers \ {"PRI"} : reg'[n] = top.pre[n]]_vars

\* C6, amended: when a callback returns, exactly ALT, FRM, CIP, STP and STK
\* have their values from before the callback; PRI, HEA, COD and DAT keep
\* what the callback left in them.
OnlySavedRegistersRestored ==
  [][callback_returns =>
       \A n \in Registers :
         reg'[n] = IF n \in saved_registers THEN top.pre[n] ELSE reg[n]]_vars

\* a callback assigned to HEA and returned: the next instruction sees the
\* callback's HEA
HeaKept ==
  /\ depth > 0
  /\ top.pc = "step"
  /\ top.cbres = "success"
  /\ top.cbreg.HEA = CallbackValue
  /\ top.pre.HEA # CallbackValue
  /\ reg.HEA = CallbackValue

(***************************************************************************)
(* The single-step callback                                                *)
(***************************************************************************)
\* the single-step callbacks of an ended call: one for each instruction, and
\* one more when the last of them failed
single_steps_due(f) ==
  f.nins + (IF f.how = "callback" /\ f.from = "loop" THEN 1 ELSE 0)

\* C7, as stated: each decode is preceded by one single-step callback fired
\* with CIP at the opcode; a call that ended has fired as many single-step
\* callbacks as it attempted instructions (one more if the last callback
\* failed); without hooks the broker answers success for the two reserved
\* indices and dispatches them to no native.
OneSingleStepPerInstruction ==
  /\ \A i \in 1 .. depth :
       /\ calls[i].pc = "done" => calls[i].nss = single_steps_due(calls[i])
       /\ (i = depth /\ calls[i].pc = "step") =>
             /\ calls[i].nloop = calls[i].nins + 1
             /\ calls[i].sscip = reg.CIP
  /\ \A index \in {cbid_single_step, cbid_break} :
       amx_callback(mem, reg, index, reg.STK, FALSE, FALSE, natives)
         = [host |-> "none", result |-> "success"]

(***************************************************************************)
(* Nested calls                                                            *)
(***************************************************************************)
\* the addresses of the cells of the data image
data_addresses == { k * cell_bytes : k \in 0 .. Len(buf.data) - 1 }

\* activation i is a call a native made from the SYSREQ of activation i - 1,
\* with the stack where the SYSREQ left it
nested_in_native(i) ==
  /\ i > 1
  /\ calls[i - 1].pc = "cb"
  /\ calls[i - 1].from = "step"
  /\ calls[i - 1].lastop = "SYSREQ"
  /\ calls[i - 1].host = "native"
  /\ calls[i].entry.STK = calls[i - 1].pre.STK
  /\ calls[i].entry.DAT = calls[i - 1].pre.DAT

\* the set-up of activation i is over
setup_over(f) == first_begins(f) \/ (f.pc = "done" /\ f.how \in {"setup", "entry"})

\* the set-up of the nested call left the cells at or above the outer STK
nested_setup_below(i) ==
  \A a \in data_addresses :
    a >= calls[i - 1].pre.STK =>
      data_cell(calls[i].entry, buf, a) = data_cell(calls[i].entry, calls[i].entrybuf, a)

\* the native of the SYSREQ of the outermost call made nested calls only,
\* the last one returned success, and now returns success itself
native_returns_after_call ==
  /\ callback_returns
  /\ top.from = "step"
  /\ top.lastop = "SYSREQ"
  /\ top.host = "native"
  /\ top.did = {"call"}
  /\ top.nested = "success"
  /\ top'.cbres = "success"

\* the cell the sentinel of activation f was pushed to
sentinel_of(f, b) ==
  data_cell(f.entry, b, f.entry.STK - (Len(f.args) + 2) * cell_bytes)

\* C8: a nested call made by a native changes, in its set-up, no data cell at
\* or above the STK of the SYSREQ; when the native then returns success the
\* outer call goes on at the instruction past the SYSREQ operand with the STK
\* and FRM of the SYSREQ, is not ended, and its sentinel is still in place.
NestedCallReentrant ==
  [][/\ \A i \in 2 .. depth' :
          (nested_in_native(i)' /\ setup_over(calls'[i])) => nested_setup_below(i)'
     /\ native_returns_after_call =>
          /\ reg'.CIP = cell(top.lastcip + 2 * cell_bytes)
          /\ reg'.STK = top.pre.STK
          /\ reg'.FRM = top.pre.FRM
          /\ top'.pc = "loop"
          /\ sentinel_of(top, buf') = invalid_cip]_vars

\* the outer call is back in its loop after a native whose nested call of
\* get_two had returned success
ResumedAfterNestedCall ==
  /\ depth = 1
  /\ top.pc = "loop"
  /\ top.lastop = "SYSREQ"
  /\ top.cbres = "success"
  /\ top.cbreg.PRI = 2
  /\ top.cbreg.CIP = invalid_cip
  /\ reg.CIP = cell(top.lastcip + 2 * cell_bytes)

(***************************************************************************)
(* One instruction: a module of one instruction behind the HALT, decoded   *)
(* once from chosen registers                                              *)
(***************************************************************************)
\* cells of the data image of the one-instruction modules
DataCells == 4

\* the instructions that address one data cell
data_ops ==
  {"LOAD_PRI", "LOAD_ALT", "LOAD_S_PRI", "LOAD_S_ALT", "LREF_S_PRI", "LREF_S_ALT",
   "LOAD_I", "STOR", "STOR_S", "SREF_S", "STOR_I", "INC_I", "DEC_I", "PICK",
   "SWAP_PRI", "SWAP_ALT", "PUSH_PRI", "PUSH_ALT", "PUSHR_PRI", "POP_PRI", "POP_ALT"}

\* data addresses: the first and the last cell, the first past the end of the
\* image in its partly filled page, a misaligned one, one in the next page,
\* one below the image
Addresses(n) ==
  {0, (n - 1) * cell_bytes, n * cell_bytes, 1, page_size, minus(cell_bytes)}

\* case tables behind a SWITCH: no record, one record, two records for one
\* value, two records for two values, a table without its marker, and one
\* whose displacements are negative; the displacements lead to different
\* addresses
case_tables ==
  LET d0 == 4 * cell_bytes
      d1 == 8 * cell_bytes
      d2 == 2 * cell_bytes
  IN {<< OP_CASETBL, 0, d0 >>,
      << OP_CASETBL, 1, d0, 0, d1 >>,
      << OP_CASETBL, 2, d0, 1, d1, 1, d2 >>,
      << OP_CASETBL, 2, d0, 0, d1, 1, d2 >>,
      << OP("NOP"), 1, d0, 0, d1 >>,
      << OP_CASETBL, 1, minus(cell_bytes), 0, minus(6 * cell_bytes) >>}

\* op with its operand at code address 4, followed by a case table
instruction(op, operand, table) ==
  halt0 \o << OP(op) >> \o (IF op \in operand_ops THEN << operand >> ELSE << >>) \o table

\* the module was loaded, which left the manager and registers of up, and
\* call has reached step with the given registers
stepping(up, code, data, pri, alt, frm, stk) ==
  LET r == [up.reg EXCEPT !.PRI = pri, !.ALT = alt, !.FRM = frm, !.STK = stk,
                          !.CIP = 2 * cell_bytes]
      b == [code |-> code, data |-> data]
  IN /\ buf = b
     /\ mem = up.mem
     /\ reg = r
     /\ calls = << [activation(2 * cell_bytes, << >>, r, b) EXCEPT !.pc = "step", !.nloop = 1] >>
     /\ publics = {2 * cell_bytes}
     /\ natives = << "native" >>
     /\ on_single_step = FALSE
     /\ on_break = FALSE
     /\ steps = 0
     /\ cbops = 0
     /\ probe = idle

\* on the manager of the tests and the CLI
at_step(code, data, pri, alt, frm, stk) ==
  stepping(bring_up(code, data, Len(data)), code, data, pri, alt, frm, stk)

\* on a Harvard manager of two paged backings
at_step_harvard(code, data, pri, alt, frm, stk) ==
  stepping(install(no_mappings_harvard, no_registers, code, data, Len(data)),
           code, data, pri, alt, frm, stk)

\* the instructions that store PRI in one data cell, at the operand, at
\* FRM + operand, at ALT, or below STK
store_ops == {"STOR", "STOR_S", "STOR_I", "PUSH_PRI"}

\* the data address at which DAT + address is the code address k, on the
\* machine that init leaves
code_as_data(up, k) == cell(up.reg.COD - up.reg.DAT + k + Modulus)

\* every data instruction at every address, directly or through a pointer
\* cell; SWITCH on every case table for values of PRI in and out of it;
\* SDIV by zero and by other divisors; the code image is cut short anywhere
\* behind the HALT; and every opcode, with small operands and the operand
\* -cell_bytes, PRI zero or not, on an empty stack at the wrapping end of
\* the data segment or on one of two cells, the registers all different;
\* CMPS of up to two cells on blocks that differ in their second cell;
\* LODB_I and STRB_I of 0 to 5 bytes at even and odd addresses in the image,
\* behind it and in a page that is not mapped; every opcode on a Harvard
\* manager; and, on both managers, the stores of an opcode to the data
\* address that is COD - DAT plus the code address of the first cell of the
\* image or of the cell behind a STOR
InitStep ==
  \/ \E op \in data_ops, a \in Addresses(DataCells), ptr \in Addresses(DataCells),
        frm \in {0, cell_bytes} :
       LET full == instruction(op, a, << >>)
       IN \E len \in Len(halt0) .. Len(full) :
            at_step(SubSeq(full, 1, len), [k \in 1 .. DataCells |-> ptr], a, a, frm, a)
  \/ \E table \in case_tables, pri \in 0 .. 2 :
       LET full == instruction("SWITCH", 2 * cell_bytes, table)
       IN \E len \in Len(halt0) .. Len(full) :
            at_step(SubSeq(full, 1, len), [k \in 1 .. DataCells |-> 0], pri, 0, 0, 0)
  \/ \E pri \in {0, 2, minus(1)}, alt \in {0, 1, 7, Modulus \div 2, minus(7), minus(1)} :
       at_step(instruction("SDIV", 0, << >>), [k \in 1 .. DataCells |-> 0], pri, alt, 0, 0)
  \/ \E i \in 1 .. OP_NUM_OPCODES, operand \in 0 .. 8 \cup {minus(cell_bytes)},
        pri \in {0, 10}, stk \in {0, 2 * cell_bytes} :
       at_step(instruction(opcode_names[i], operand, << >>), [k \in 1 .. DataCells |-> 0],
               pri, 12, cell_bytes, stk)
  \/ \E pri \in {0, 2 * cell_bytes}, alt \in {0, 2 * cell_bytes},
        operand \in {0, cell_bytes, 2 * cell_bytes} :
       at_step(instruction("CMPS", operand, << >>),
               [k \in 1 .. DataCells |-> IF k = 2 THEN 7 ELSE IF k = 4 THEN 9 ELSE 5],
               pri, alt, 0, 0)
  \/ \E op \in {"LODB_I", "STRB_I"}, w \in 0 .. 5,
        a \in {0, 1, DataCells * cell_bytes, DataCells * cell_bytes + 1, page_size,
               page_size + 1} :
       at_step(instruction(op, w, << >>), [k \in 1 .. DataCells |-> 255 + k], a, a, 0, 0)
  \/ \E i \in 1 .. OP_NUM_OPCODES, operand \in 0 .. 8 \cup {minus(cell_bytes)},
        pri \in {0, 10}, stk \in {0, 2 * cell_bytes} :
       at_step_harvard(instruction(opcode_names[i], operand, << >>),
                       [k \in 1 .. DataCells |-> 0], pri, 12, cell_bytes, stk)
  \/ \E op \in store_ops, k \in {0, 4 * cell_bytes}, pri \in {OP("RETN"), OP("BREAK")} :
       LET data == [j \in 1 .. DataCells |-> 0]
           code == halt0 \o << OP("NOP"), 0, OP("NOP") >>
           a == code_as_data(bring_up(code, data, DataCells), k)
           h == code_as_data(install(no_mappings_harvard, no_registers, code, data, DataCells), k)
       IN \/ at_step(instruction(op, a, << OP("NOP") >>), data, pri, a, 0, cell(a + cell_bytes))
          \/ at_step_harvard(instruction(op, h, << OP("NOP") >>), data, pri, h, 0,
                             cell(h + cell_bytes))

NextStep == Step

SpecStep == InitStep /\ [][NextStep]_vars

(***************************************************************************)
(* Segment isolation                                                       *)
(***************************************************************************)
\* va falls inside a populated page slot, below the slot's valid size
populated(va) ==
  /\ data_backing(mem)[page_index(va)].buf # null
  /\ page_offset(va) < data_backing(mem)[page_index(va)].size

\* the code cell at address a, or Unset when a does not translate
code_cell(r, b, a) ==
  LET p == code_v2p(mem, r, cell(a)) IN IF p = null THEN Unset ELSE rd(b, p)

\* the operand of the instruction at CIP
operand_at(r, b) == code_cell(r, b, r.CIP + cell_bytes)

\* the instruction at CIP can be fetched, operand included
fetched(r, b) ==
  /\ code_cell(r, b, r.CIP) # Unset
  /\ opcode_at(mem, r, b) \in operand_ops => operand_at(r, b) # Unset

\* the data address a data instruction goes to first
first_address(op, operand, r) ==
  IF op \in {"LOAD_PRI", "LOAD_ALT", "STOR"} THEN operand
  ELSE IF op \in {"LOAD_S_PRI", "LOAD_S_ALT", "STOR_S", "LREF_S_PRI", "LREF_S_ALT", "SREF_S"}
  THEN cell(r.FRM + operand)
  ELSE IF op \in {"LOAD_I", "INC_I", "DEC_I"} THEN r.PRI
  ELSE IF op = "STOR_I" THEN r.ALT
  ELSE IF op = "PICK" THEN cell(r.STK + operand)
  ELSE IF op \in {"PUSH_PRI", "PUSH_ALT", "PUSHR_PRI"} THEN cell(r.STK - cell_bytes)
  ELSE r.STK

\* the instruction at CIP is a data instruction, and DAT + address, for its
\* first address or for the address in the pointer cell of LREF_S and SREF_S,
\* is not inside a populated slot
outside_data(r, b) ==
  LET op == opcode_at(mem, r, b)
      first == first_address(op, operand_at(r, b), r)
  IN /\ fetched(r, b)
     /\ op \in data_ops
     /\ \/ ~populated(cell(r.DAT + first))
        \/ /\ op \in {"LREF_S_PRI", "LREF_S_ALT", "SREF_S"}
           /\ data_cell(r, b, first) # Unset
           /\ ~populated(cell(r.DAT + data_cell(r, b, first)))

\* step is called for the innermost activation
decodes == depth > 0 /\ top.pc = "step" /\ steps' = steps + 1

\* step returned res, which ended the call
step_returned(res) == top'.pc = "done" /\ top'.how = "step" /\ top'.result = res

\* C9: a data instruction whose DAT + address is not inside a populated page
\* slot below the slot's valid size makes step return access_violation, and
\* no cell of the code or data buffers is written.
DataSegmentIsolated ==
  [][(decodes /\ outside_data(reg, buf)) =>
       (step_returned("access_violation") /\ buf' = buf)]_vars

\* a STOR to the first index past the end of the data image, in the partly
\* filled last page, was refused
StoreBeyondImageRefused ==
  /\ depth > 0
  /\ top.pc = "done"
  /\ top.lastop = "STOR"
  /\ code_cell(reg, buf, top.lastcip + cell_bytes) = Len(buf.data) * cell_bytes
  /\ populated(cell(reg.DAT + (Len(buf.data) - 1) * cell_bytes))
  /\ top.result = "access_violation"
  /\ buf = top.entrybuf

\* a read of the case table of the SWITCH at CIP fails: the marker, or behind
\* a CASETBL marker the record count, the default displacement, or a record
\* up to the first one that matches PRI
table_unreadable(r, b) ==
  LET tbl == cell(r.CIP + operand_at(r, b))
      test(j) == code_cell(r, b, tbl + (1 + 2 * j) * cell_bytes)
      disp(j) == code_cell(r, b, tbl + (2 + 2 * j) * cell_bytes)
  IN \/ code_cell(r, b, tbl) = Unset
     \/ /\ code_cell(r, b, tbl) = OP_CASETBL
        /\ \/ code_cell(r, b, tbl + cell_bytes) = Unset
           \/ code_cell(r, b, tbl + 2 * cell_bytes) = Unset
           \/ \E j \in 1 .. code_cell(r, b, tbl + cell_bytes) :
                /\ \A i \in 1 .. j - 1 : test(i) \notin {Unset, r.PRI} /\ disp(i) # Unset
                /\ test(j) = Unset \/ disp(j) = Unset

\* a read of the code segment fails in the instruction at CIP
code_read_fails(r, b) ==
  \/ ~fetched(r, b)
  \/ opcode_at(mem, r, b) = "SWITCH" /\ table_unreadable(r, b)

\* C10, as stated: a failed read of the code segment (opcode, operand, or a
\* cell of a SWITCH case table) makes step return access_violation_code, and
\* a failed access to the data segment makes it return access_violation.
FailuresCarrySegment ==
  [][decodes =>
       /\ code_read_fails(reg, buf) => step_returned("access_violation_code")
       /\ outside_data(reg, buf) => step_returned("access_violation")]_vars

(***************************************************************************)
(* Stack discipline                                                        *)
(***************************************************************************)
\* C2: after a call of an entry function PROC, stack-balanced body, RETN
\* with any number of arguments has returned success, STK, FRM and HEA have
\* their values from before the call.
StackDiscipline ==
  (depth > 0 /\ top.pc = "done" /\ top.result = "success") =>
    /\ reg.STK = top.entry.STK
    /\ reg.FRM = top.entry.FRM
    /\ reg.HEA = top.entry.HEA

\* a call with two arguments of a function with a body of two fragments
\* returned success and left the stack as it was
BalancedCallReturned ==
  /\ depth > 0
  /\ top.pc = "done"
  /\ top.result = "success"
  /\ top.lastop = "RETN"
  /\ Len(top.args) >= 2
  /\ top.nins >= 6
  /\ reg.STK = top.entry.STK

(***************************************************************************)
(* The loader                                                              *)
(***************************************************************************)
\* the magic of a file for cells of 16 bits, 0xF1E2
expected_magic == 61922
\* the magics of the three cell widths, 0xF1E0 .. 0xF1E2
magics == {61920, 61921, 61922}

\* a check that moved the file version before the magic
validate_version_first(h) ==
  IF h.buf_size < 60 THEN "invalid_file"
  ELSE IF h.file_version # 11 THEN "unsupported_file_version"
  ELSE IF h.magic # expected_magic
  THEN (IF h.magic \in magics THEN "wrong_cell_size" ELSE "invalid_file")
  ELSE IF h.size > h.buf_size THEN "invalid_file"
  ELSE IF h.amx_version > 11 THEN "unsupported_amx_version"
  ELSE IF h.flags % 2 = 1 \/ (h.flags \div 8) % 2 = 1 THEN "feature_not_supported"
  ELSE IF h.defsize < 8 THEN "invalid_file"
  ELSE "success"

\* the checks of init on the header fields of a file h, in the order of the
\* code: the first error, or success; flag_overlay is bit 0 and flag_sleep
\* bit 3 of the flags
validate(h) ==
  IF h.buf_size < 60 THEN "invalid_file"
  ELSE IF h.magic # expected_magic
  THEN (IF h.magic \in magics THEN "wrong_cell_size" ELSE "invalid_file")
  ELSE IF h.size > h.buf_size THEN "invalid_file"
  ELSE IF h.file_version # 11 THEN "unsupported_file_version"
  ELSE IF h.amx_version > 11 THEN "unsupported_amx_version"
  ELSE IF h.flags % 2 = 1 \/ (h.flags \div 8) % 2 = 1 THEN "feature_not_supported"
  ELSE IF h.defsize < 8 THEN "invalid_file"
  ELSE "success"

\* the tests of select_array and iter_valarray on a range of the file
in_file(h, begin, end, entry_size) ==
  /\ begin <= h.buf_size
  /\ end <= h.buf_size
  /\ begin <= end
  /\ (end - begin) % entry_size = 0

\* the entries of a table of the file: an address, a name, and whether the
\* name ends inside the file
entries_at(h, begin, end) ==
  [i \in 1 .. (end - begin) \div h.defsize |-> h.entries[begin + (i - 1) * h.defsize]]

RECURSIVE read_names(_, _)
\* the callback of the publics and pubvars tables: table[name] = address
\* for every entry up to the first whose name does not end
read_names(table, entries) ==
  IF entries = << >> THEN [ok |-> TRUE, table |-> table]
  ELSE IF ~entries[1].terminated THEN [ok |-> FALSE, table |-> table]
  ELSE read_names({e \in table : e[1] # entries[1].name}
                    \cup {<< entries[1].name, entries[1].address >>},
                  Tail(entries))

RECURSIVE read_natives_last_registration(_, _, _)
\* a natives table that pushes back the callback of the last registration
\* of the name
read_natives_last_registration(vector, entries, callbacks) ==
  LET found == {i \in 1 .. Len(callbacks) : callbacks[i].name = entries[1].name}
      result == CHOOSE i \in found : \A j \in found : j <= i
  IN IF entries = << >> THEN [ok |-> TRUE, not_found |-> FALSE, vector |-> vector]
     ELSE IF ~entries[1].terminated
     THEN [ok |-> FALSE, not_found |-> FALSE, vector |-> vector]
     ELSE IF found = {} THEN [ok |-> FALSE, not_found |-> TRUE, vector |-> vector]
     ELSE read_natives_last_registration(Append(vector, callbacks[result].callback),
                                         Tail(entries), callbacks)

RECURSIVE read_natives(_, _, _)
\* the callback of the natives table: std::find_if gives the first
\* registration of callbacks.natives whose name is the entry's, and its
\* callback is pushed back
read_natives(vector, entries, callbacks) ==
  LET found == {i \in 1 .. Len(callbacks) : callbacks[i].name = entries[1].name}
      result == CHOOSE i \in found : \A j \in found : i <= j
  IN IF entries = << >> THEN [ok |-> TRUE, not_found |-> FALSE, vector |-> vector]
     ELSE IF ~entries[1].terminated
     THEN [ok |-> FALSE, not_found |-> FALSE, vector |-> vector]
     ELSE IF found = {} THEN [ok |-> FALSE, not_found |-> TRUE, vector |-> vector]
     ELSE read_natives(Append(vector, callbacks[result].callback), Tail(entries), callbacks)

\* a loader that was constructed
no_module ==
  [code |-> << >>, data |-> << >>, natives |-> << >>, publics |-> {}, pubvars |-> {},
   main |-> 0]

\* init(buf, buf_size, callbacks) on a loader l whose machine has the slot
\* table m and the registers r
init(l, m, r, h, callbacks) ==
  LET failed(res, l2) == [result |-> res, loader |-> l2, mem |-> m, reg |-> r]
      l1 == [l EXCEPT !.code = h.code]
      l2 == [l1 EXCEPT
               !.data = h.data \o [k \in 1 .. ((h.stp - h.hea) + cell_bytes - 1) \div cell_bytes
                                     |-> 0],
               !.main = IF h.cip = -1 THEN 0 ELSE h.cip]
  IN IF validate(h) # "success" THEN failed(validate(h), l)
     ELSE IF ~in_file(h, h.cod, h.dat, cell_bytes) THEN failed("invalid_file", l)
     ELSE IF ~in_file(h, h.dat, h.hea, cell_bytes) THEN failed("invalid_file", l1)
     ELSE IF ~in_file(h, h.publics, h.natives, h.defsize) THEN failed("invalid_file", l2)
     ELSE the({
       IF ~p.ok THEN failed("invalid_file", [l2 EXCEPT !.publics = p.table])
       ELSE IF ~in_file(h, h.natives, h.libraries, h.defsize)
       THEN failed("invalid_file", [l2 EXCEPT !.publics = p.table])
       ELSE the({
         IF ~n.ok
         THEN failed(IF n.not_found THEN "native_not_resolved" ELSE "invalid_file",
                     [l2 EXCEPT !.publics = p.table, !.natives = n.vector])
         ELSE IF h.libraries # h.pubvars
         THEN failed("feature_not_supported",
                     [l2 EXCEPT !.publics = p.table, !.natives = n.vector])
         ELSE IF ~in_file(h, h.pubvars, h.tags, h.defsize)
         THEN failed("invalid_file", [l2 EXCEPT !.publics = p.table, !.natives = n.vector])
         ELSE the({
           IF ~v.ok
           THEN failed("invalid_file",
                       [l2 EXCEPT !.publics = p.table, !.natives = n.vector,
                                  !.pubvars = v.table])
           ELSE the({
             [result |-> IF up.ok THEN "success" ELSE "unknown",
              loader |-> [l2 EXCEPT !.publics = p.table, !.natives = n.vector,
                                    !.pubvars = v.table],
              mem |-> up.mem,
              reg |-> up.reg]
             : up \in {install(m, r, l2.code, l2.data, Len(h.data))} })
           : v \in {read_names(l2.pubvars, entries_at(h, h.pubvars, h.tags))} })
         : n \in {read_natives(l2.natives, entries_at(h, h.natives, h.libraries), callbacks)} })
       : p \in {read_names(l2.publics, entries_at(h, h.publics, h.natives))} })

(***************************************************************************)
(* Operations applied on their own, on cells of several widths             *)
(***************************************************************************)
\* an abstract machine that was constructed and never loaded
constructed ==
  /\ buf = [code |-> << >>, data |-> << >>]
  /\ reg = no_registers
  /\ calls = << >>
  /\ publics = {}
  /\ natives = << >>
  /\ on_single_step = FALSE
  /\ on_break = FALSE
  /\ steps = 0
  /\ cbops = 0

\* the cell widths of the instantiations whose values fit the checker's
\* integers
Widths == {16, 32}

\* dividends and divisors: the least value and its neighbour with the
\* divisors of magnitude 1 and 2, small values with every small divisor
sdiv_inputs(w) ==
  ({smin(w), smin(w) + 1} \X {-2, -1, 1, 2})
    \cup ({-7, -6, -2, -1, 0, 1, 2, 6, 7} \X {-3, -2, -1, 1, 2, 3})

\* the result of the checks of LODB_I and STRB_I of w bytes at addr, on a
\* data segment of cells of cb bytes
subcell_checks(cb, data, addr, w) ==
  IF spans_cells(cb, addr, w) THEN "invalid_operand"
  ELSE IF addr \div cb >= Len(data) THEN "access_violation"
  ELSE IF w \in {1, 2, 4} THEN "success"
  ELSE "invalid_operand"

\* sub-cell accesses: cells of 2, 4 and 8 bytes, a data segment of two cells,
\* every operand up to 4, every byte address up to the first past the segment
subcell_inputs ==
  { [op |-> "subcell", cb |-> cb, w |-> w, addr |-> addr, v |-> v, pri |-> v,
     data |-> << old, [k \in 1 .. cb |-> 16 * k] >>,
     before |-> << old, [k \in 1 .. cb |-> 16 * k] >>,
     pc |-> "store", res |-> "success"]
    : cb \in {2, 4, 8}, w \in 1 .. 4, addr \in 0 .. 16,
      v \in {[k \in 1 .. 8 |-> 128 + k], [k \in 1 .. 8 |-> 255], [k \in 1 .. 8 |-> 0]},
      old \in {[k \in 1 .. 8 |-> 255], [k \in 1 .. 8 |-> k]} }

\* the number of map and unmap operations applied to a slot table
MaxPagedOps == 3

\* a cell of the host; host cells 0 .. page_count - 1 are mapped one by one
host(idx) == [buf |-> "host", idx |-> idx]

\* slot tables to start from: the slots of a set hold mappings of one host
\* cell each, as map leaves them after page_count maps of one cell and the
\* unmaps of the others
ballast_slots == {{}, {2}, 0 .. 29, 0 .. 30, 0 .. page_count - 1}
ballast(slots) ==
  [s \in 0 .. page_count - 1 |->
     IF s \in slots THEN mapping(host(s), cell_bytes) ELSE mapping(null, 0)]

\* sizes in cells: none, one cell, a full slot, one cell more, two slots and
\* a cell, and half the address space
map_sizes ==
  LET slot == page_size \div cell_bytes
  IN {0, 1, slot, slot + 1, 2 * slot + 1, Modulus \div cell_bytes}

\* the number of calls of init on one loader
MaxInits == 2

\* a file of a module with one public, the natives of the given names and
\* one public variable: the header of 60 bytes, the three tables of entries
\* of 8 bytes, 16 bytes of names, the code, and the data image
module_file(names) ==
  LET libraries == 68 + 8 * Len(names)
      cod == libraries + 8 + 16
      dat == cod + Len(sysreq(0).code) * cell_bytes
      hea == dat + Len(data_image) * cell_bytes
  IN [buf_size |-> hea, size |-> hea, magic |-> expected_magic, file_version |-> 11,
      amx_version |-> 11, flags |-> 0, defsize |-> 8, cod |-> cod, dat |-> dat,
      hea |-> hea, stp |-> hea + 2 * cell_bytes, cip |-> -1,
      publics |-> 60, natives |-> 68, libraries |-> libraries, pubvars |-> libraries,
      tags |-> libraries + 8,
      entries |-> [o \in {60 + 8 * i : i \in 0 .. Len(names) + 1} |->
                     IF o = 60 THEN [address |-> 4, name |-> "get_two", terminated |-> TRUE]
                     ELSE IF o = libraries
                     THEN [address |-> 0, name |-> "counter", terminated |-> TRUE]
                     ELSE [address |-> 0, name |-> names[(o - 60) \div 8],
                           terminated |-> TRUE]],
      code |-> sysreq(0).code, data |-> data_image]

\* the registrations of the host, callbacks.natives: none, one name, two
\* names, and a name registered twice with two callbacks
registrations ==
  LET five == [name |-> "five", callback |-> "native_five"]
      six == [name |-> "six", callback |-> "native_six"]
      other == [name |-> "five", callback |-> "native_other"]
  IN {<< >>, << five >>, << five, six >>, << six, five, other >>, << other, six, five >>}

\* files: every combination of a short buffer, the four kinds of magic, a
\* size field over the buffer, the versions, the flags and a short entry
\* size; and files with up to two natives, with and without the debug flag,
\* with and without a library table, the name of the last native ending
\* inside the file or not, under each of the registrations; and files with
\* and without a data image whose stp field is hea, hea + 1 or hea plus two
\* cells
loader_inputs ==
  { [file |-> [module_file(<< >>) EXCEPT !.buf_size = in[1], !.magic = in[2],
                                          !.size = @ + in[3], !.file_version = in[4],
                                          !.amx_version = in[5], !.flags = in[6],
                                          !.defsize = in[7]],
     callbacks |-> << >>]
    : in \in {59, module_file(<< >>).buf_size} \X {expected_magic, 61920, 61921, 0} \X {0, 1}
              \X {10, 11} \X {11, 12} \X {0, 1, 2, 8, 10} \X {7, 8} }
  \cup
  { [file |-> [module_file(names) EXCEPT
                 !.flags = flags,
                 !.pubvars = @ + library, !.tags = @ + library,
                 !.entries[60 + 8 * Len(names)].terminated = terminated \/ names = << >>],
     callbacks |-> callbacks]
    : names \in {<< >>, << "five" >>, << "five", "six" >>, << "six", "five" >>,
                 << "five", "five" >>},
      flags \in {0, 2}, library \in {0, 8}, terminated \in BOOLEAN,
      callbacks \in registrations }
  \cup
  { [file |-> [module_file(<< >>) EXCEPT
                 !.data = data,
                 !.hea = module_file(<< >>).dat + Len(data) * cell_bytes,
                 !.stp = module_file(<< >>).dat + Len(data) * cell_bytes + space],
     callbacks |-> << >>]
    : data \in {<< >>, data_image}, space \in {0, 1, 2 * cell_bytes} }

InitAlone ==
  /\ constructed
  /\ \/ /\ mem = no_mappings
        /\ \/ \E w \in Widths : \E in \in sdiv_inputs(w) :
                probe = [op |-> "sdiv", w |-> w, a |-> in[1], b |-> in[2], done |-> FALSE]
           \/ \E in \in subcell_inputs :
                /\ in.addr <= 2 * in.cb
                /\ probe = [in EXCEPT !.v = SubSeq(@, 1, in.cb), !.pri = SubSeq(@, 1, in.cb),
                                      !.data[1] = SubSeq(@, 1, in.cb),
                                      !.before[1] = SubSeq(@, 1, in.cb)]
     \/ /\ mem = map(no_mappings, host(0), 2 * DataCells).m
        /\ \E backing \in {"paged", "contiguous", "partial"},
              va \in 0 .. 4 * DataCells * cell_bytes + 1, bits \in {0, 2 ^ (valid_bits - 1)} :
             probe = [op |-> "translate", backing |-> backing, va |-> va,
                      backing_bits |-> bits, done |-> FALSE]
     \/ /\ mem = no_mappings
        /\ \E in \in loader_inputs :
             probe = [op |-> "loader", file |-> in.file, callbacks |-> in.callbacks, n |-> 0,
                      loader |-> no_module, results |-> << >>,
                      first |-> [loader |-> no_module, reg |-> no_registers]]
     \/ \E slots \in ballast_slots :
          /\ mem = ballast(slots)
          /\ probe = [op |-> "paged", ballast |-> slots, live |-> {}, n |-> 0,
                      killed |-> FALSE, last |-> [kind |-> "none"]]

\* loader::init(buf, buf_size, callbacks), on the same loader, buffer and
\* registrations every time
LoaderInit ==
  /\ probe.op = "loader"
  /\ probe.n < MaxInits
  /\ \E o \in {init(probe.loader, mem, reg, probe.file, probe.callbacks)} :
       /\ mem' = o.mem
       /\ reg' = o.reg
       /\ probe' = [probe EXCEPT
            !.n = @ + 1,
            !.loader = o.loader,
            !.results = Append(@, o.result),
            !.first = IF probe.n = 0 THEN [loader |-> o.loader, reg |-> o.reg] ELSE @]
  /\ UNCHANGED << buf, calls, on_single_step, on_break, natives, publics, steps, cbops >>

\* translate(va) of a backing on which a buffer of 2 * DataCells cells is
\* mapped at address 0; the partial address space has kept backing_bits of
\* the buffer's address
Translate ==
  /\ probe.op = "translate"
  /\ ~probe.done
  /\ probe' = [op |-> "translate", backing |-> probe.backing, va |-> probe.va,
               backing_bits |-> probe.backing_bits, done |-> TRUE,
               out |-> CASE probe.backing = "paged" -> translate(mem, probe.va)
                         [] probe.backing = "contiguous" ->
                              contiguous_translate(
                                [buf |-> "host", size |-> 2 * DataCells * cell_bytes], probe.va)
                         [] OTHER -> partial_translate(probe.backing_bits, probe.va)]
  /\ UNCHANGED << reg, buf, mem, calls, on_single_step, on_break, natives, publics, steps, cbops >>

\* data().map(buf, size, va) with a fresh host buffer; a write past the slot
\* table is undefined behaviour, which goes unnoticed or kills the host
Map(size) ==
  /\ probe.op = "paged"
  /\ ~probe.killed
  /\ probe.n < MaxPagedOps
  /\ \E r \in {map(mem, host(100000 * (probe.n + 1)), size)} :
     \E killed \in IF r.beyond = {} THEN {FALSE} ELSE BOOLEAN :
       /\ mem' = r.m
       /\ probe' = [probe EXCEPT
            !.n = @ + 1,
            !.killed = killed,
            !.live = IF r.ok /\ size > 0
                     THEN @ \cup {[va |-> r.va, size |-> size]}
                     ELSE @,
            !.last = [kind |-> "map", size |-> size, buf |-> host(100000 * (probe.n + 1)),
                      was |-> mem, ok |-> r.ok, va |-> r.va, beyond |-> r.beyond]]
  /\ UNCHANGED << reg, buf, calls, on_single_step, on_break, natives, publics, steps, cbops >>

\* data().unmap(va, size) of a live mapping, or once more of the mapping
\* that was unmapped last
Unmap ==
  /\ probe.op = "paged"
  /\ ~probe.killed
  /\ probe.n < MaxPagedOps
  /\ \E l \in probe.live \cup (IF probe.last.kind = "unmap" THEN {probe.last.l} ELSE {}) :
       /\ mem' = unmap(mem, l.va, l.size)
       /\ probe' = [probe EXCEPT
            !.n = @ + 1,
            !.live = @ \ {l},
            !.last = [kind |-> "unmap", l |-> l, was |-> mem, others |-> probe.live \ {l},
                      again |-> l \notin probe.live,
                      scoped |-> /\ probe.last.kind = "map"
                                 /\ probe.last.ok
                                 /\ probe.last.va = l.va
                                 /\ probe.last.size = l.size,
                      before_map |-> IF probe.last.kind = "map" THEN probe.last.was ELSE mem]]
  /\ UNCHANGED << reg, buf, calls, on_single_step, on_break, natives, publics, steps, cbops >>

\* OP_SDIV with ALT = a and PRI = b, b not zero
Sdiv ==
  /\ probe.op = "sdiv"
  /\ ~probe.done
  /\ \E o \in sdiv(probe.w, probe.a, probe.b) :
       probe' = [op |-> "sdiv", w |-> probe.w, a |-> probe.a, b |-> probe.b,
                 done |-> TRUE, out |-> o]
  /\ UNCHANGED << reg, buf, mem, calls, on_single_step, on_break, natives, publics, steps, cbops >>

\* OP_STRB_I with the address in ALT and the value in PRI
StrbI ==
  /\ probe.op = "subcell"
  /\ probe.pc = "store"
  /\ \E res \in {subcell_checks(probe.cb, probe.data, probe.addr, probe.w)} :
       probe' = IF res = "success"
                THEN [probe EXCEPT !.pc = "load",
                                   !.data[probe.addr \div probe.cb + 1] =
                                      strb(@, probe.v, probe.addr % probe.cb, probe.w)]
                ELSE [probe EXCEPT !.pc = "done", !.res = res]
  /\ UNCHANGED << reg, buf, mem, calls, on_single_step, on_break, natives, publics, steps, cbops >>

\* OP_LODB_I with the address in PRI
LodbI ==
  /\ probe.op = "subcell"
  /\ probe.pc = "load"
  /\ \E res \in {subcell_checks(probe.cb, probe.data, probe.addr, probe.w)} :
       probe' = [probe EXCEPT !.pc = "done", !.res = res,
                              !.pri = IF res = "success"
                                      THEN lodb(probe.data[probe.addr \div probe.cb + 1],
                                                probe.addr % probe.cb, probe.w)
                                      ELSE @]
  /\ UNCHANGED << reg, buf, mem, calls, on_single_step, on_break, natives, publics, steps, cbops >>

NextAlone == Sdiv \/ StrbI \/ LodbI \/ (\E size \in map_sizes : Map(size)) \/ Unmap \/ Translate \/ LoaderInit

SpecAlone == InitAlone /\ [][NextAlone]_vars

(***************************************************************************)
(* Signed division                                                         *)
(***************************************************************************)
abs(x) == IF x < 0 THEN 0 - x ELSE x

\* a = q * b + r modulo 2^w; the product of the least value and -1 is 2^(w-1),
\* which is the least value modulo 2^w
divides_back(w, a, b, q, r) ==
  IF q = smin(w) /\ b = -1 THEN a = to_scell(w, smin(w) + r)
  ELSE a = to_scell(w, q * b + r)

\* C11: for every dividend a in ALT and every nonzero divisor b in PRI, the
\* least value divided by -1 included, SDIV leaves a quotient q in PRI and a
\* remainder r in ALT with a = q * b + r modulo 2^w, r = 0 or of the sign of
\* b, and |r| < |b|.
FlooredDivision ==
  (probe.op = "sdiv" /\ probe.done) =>
    /\ ~probe.out.trap
    /\ divides_back(probe.w, probe.a, probe.b, probe.out.q, probe.out.r)
    /\ probe.out.r = 0 \/ (probe.out.r < 0) = (probe.b < 0)
    /\ abs(probe.out.r) < abs(probe.b)

(***************************************************************************)
(* Division by zero                                                        *)
(***************************************************************************)
\* the instruction at CIP is fetched and is op
executes(op) == decodes /\ fetched(reg, buf) /\ opcode_at(mem, reg, buf) = op

\* C12: SDIV with PRI = 0 returns division_with_zero whatever ALT holds,
\* leaves PRI, ALT and every other register but the advanced CIP as they
\* were, and the error is the result of the enclosing call.
DivisionByZero ==
  [][(executes("SDIV") /\ reg.PRI = 0) =>
       /\ step_returned("division_with_zero")
       /\ reg' = [reg EXCEPT !.CIP = cell(reg.CIP + cell_bytes)]
       /\ buf' = buf]_vars

\* a negative dividend was divided by zero, and the call ended with the error
DividedByZero ==
  /\ depth > 0
  /\ top.pc = "done"
  /\ top.lastop = "SDIV"
  /\ top.result = "division_with_zero"
  /\ reg.PRI = 0
  /\ reg.ALT = minus(7)

(***************************************************************************)
(* Switch                                                                  *)
(***************************************************************************)
\* the address a displacement leads to: the displacement is relative to the
\* cell before the one that holds it
switch_target(at, disp) == cell(at - cell_bytes + disp)

\* C13: a SWITCH whose table starts with CASETBL sets CIP from the
\* displacement of the first record, in table order, whose test value is
\* PRI, and from the default displacement when no record matches (a table
\* of zero records included); when the first cell of the table is not
\* CASETBL, step returns invalid_operand and CIP stays behind the operand.
SwitchTotality ==
  [][executes("SWITCH") =>
       LET tbl == cell(reg.CIP + operand_at(reg, buf))
           at_test(j) == tbl + (1 + 2 * j) * cell_bytes
           at_disp(j) == tbl + (2 + 2 * j) * cell_bytes
           matches == {j \in 1 .. code_cell(reg, buf, tbl + cell_bytes) :
                         code_cell(reg, buf, at_test(j)) = reg.PRI}
           first == CHOOSE j \in matches : \A k \in matches : j <= k
       IN /\ code_cell(reg, buf, tbl) \notin {Unset, OP_CASETBL} =>
               /\ step_returned("invalid_operand")
               /\ reg'.CIP = cell(reg.CIP + 2 * cell_bytes)
          /\ (code_cell(reg, buf, tbl) = OP_CASETBL /\ ~table_unreadable(reg, buf)) =>
               /\ reg'.CIP = IF matches = {}
                              THEN switch_target(tbl + 2 * cell_bytes,
                                                 code_cell(reg, buf, tbl + 2 * cell_bytes))
                              ELSE switch_target(at_disp(first),
                                                 code_cell(reg, buf, at_disp(first)))
               /\ top'.pc = "loop"]_vars

\* a SWITCH with two records for the value in PRI went to the first
FirstMatchTaken ==
  /\ depth > 0
  /\ top.lastop = "SWITCH"
  /\ top.pc = "loop"
  /\ Len(buf.code) = 11
  /\ buf.code[8] = buf.code[10]
  /\ reg.PRI = buf.code[8]
  /\ buf.code[9] # buf.code[11]
  /\ reg.CIP = switch_target(8 * cell_bytes, buf.code[9])

(***************************************************************************)
(* Sub-cell accesses                                                       *)
(***************************************************************************)
\* C14: for every cell width, every w of 1, 2 and 4 bytes up to the cell
\* width and every byte position p in a cell with p + w up to the cell
\* width, STRB_I w of a value v at that position followed by LODB_I w at the
\* same address leaves v masked to w bytes in PRI, and the store changes
\* neither the other bytes of the cell nor any other cell.
SubCellRoundTrip ==
  (/\ probe.op = "subcell"
   /\ probe.w \in {1, 2, 4}
   /\ (probe.addr % probe.cb) + probe.w <= probe.cb
   /\ probe.addr \div probe.cb < Len(probe.data)) =>
    /\ probe.res = "success"
    /\ probe.pc # "store" =>
         \A i \in 1 .. Len(probe.data) : \A k \in 1 .. probe.cb :
           LET at == (i - 1) * probe.cb + k - 1
           IN IF at >= probe.addr /\ at < probe.addr + probe.w
              THEN probe.data[i][k] = probe.v[at - probe.addr + 1]
              ELSE probe.data[i][k] = probe.before[i][k]
    /\ probe.pc = "done" =>
         probe.pri = [k \in 1 .. probe.cb |-> IF k <= probe.w THEN probe.v[k] ELSE 0]

\* the upper four bytes of the second cell of eight bytes were stored and
\* loaded back
UpperHalfRoundTrip ==
  /\ probe.op = "subcell"
  /\ probe.pc = "done"
  /\ probe.cb = 8
  /\ probe.w = 4
  /\ probe.addr = 12
  /\ probe.res = "success"
  /\ probe.v[5] # 0
  /\ probe.pri = << 129, 130, 131, 132, 0, 0, 0, 0 >>
  /\ probe.data[2] = << 16, 32, 48, 64, 129, 130, 131, 132 >>

(***************************************************************************)
(* The paged backing                                                       *)
(***************************************************************************)
\* the slots a mapping of size cells needs
slots_needed(size) == (size * cell_bytes + page_size - 1) \div page_size

\* the first slots of the runs of n free slots of a table
free_runs(m, n) ==
  {s \in 0 .. page_count - n : \A i \in s .. s + n - 1 : m[i].buf = null}

\* cell-aligned byte offsets into a mapping of size cells: the first and the
\* last cell of every slot it needs, its last cell and the one behind
offsets(size) ==
  {k * page_size : k \in 0 .. slots_needed(size) - 1}
    \cup {k * page_size - cell_bytes : k \in 1 .. slots_needed(size)}
    \cup {(size - 1) * cell_bytes, size * cell_bytes}

\* a map of at least one cell was the last operation on the slot table
mapped_last == probe.op = "paged" /\ probe.last.kind = "map" /\ probe.last.size >= 1

\* C15, as stated: a map that needs n >= 1 slots succeeds exactly if the
\* table has a run of n consecutive free slots; it then populates exactly
\* the slots of the lowest such run, returns the address of the run's first
\* slot, changes no populated slot and writes no slot past the table; when
\* it fails the table is unchanged.
PagedMapPlacement ==
  mapped_last =>
    LET n == slots_needed(probe.last.size)
        runs == free_runs(probe.last.was, n)
        first == CHOOSE s \in runs : \A t \in runs : s <= t
    IN /\ probe.last.ok <=> runs # {}
       /\ probe.last.ok =>
            /\ probe.last.va = make_va(first, 0)
            /\ probe.last.beyond = {}
            /\ \A s \in 0 .. page_count - 1 :
                 IF s >= first /\ s < first + n
                 THEN mem[s].buf = host(probe.last.buf.idx
                                        + (page_size \div cell_bytes) * (s - first))
                 ELSE mem[s] = probe.last.was[s]
       /\ ~probe.last.ok => mem = probe.last.was

\* C16, as stated: after a successful map of size cells at va, every
\* cell-aligned offset o below size * cell_bytes translates, at va + o, to
\* cell o / cell_bytes of the buffer, across slots too, and every
\* cell-aligned offset from there up to the end of the reserved slots does
\* not translate.
PagedTranslateAfterMap ==
  (mapped_last /\ probe.last.ok) =>
    \A o \in offsets(probe.last.size) :
      IF o < probe.last.size * cell_bytes
      THEN translate(mem, cell(probe.last.va + o)) = host(probe.last.buf.idx + o \div cell_bytes)
      ELSE o < slots_needed(probe.last.size) * page_size =>
             translate(mem, cell(probe.last.va + o)) = null

\* the translations of the cells of a mapping at the offsets under a table
translations(m, l) ==
  [o \in {x \in offsets(l.size) : x < l.size * cell_bytes} |-> translate(m, cell(l.va + o))]

\* C17, as stated: unmap(va, size) of a live mapping zeroes pointer and
\* size in exactly the slots the mapping occupies, translations into it
\* fail from then on, every other live mapping translates as before, the
\* slot table is as it was before the map, and an unmap repeated changes
\* nothing.
ScopedMapping ==
  (probe.op = "paged" /\ probe.last.kind = "unmap") =>
    LET l == probe.last.l
        first == page_index(l.va)
        others == probe.last.others
                    \cup {[va |-> make_va(s, 0), size |-> 1] : s \in probe.ballast}
    IN IF probe.last.again THEN mem = probe.last.was
       ELSE /\ \A s \in 0 .. page_count - 1 :
                 mem[s] = IF s >= first /\ s < first + slots_needed(l.size)
                          THEN mapping(null, 0)
                          ELSE probe.last.was[s]
            /\ \A o \in DOMAIN translations(mem, l) : translations(mem, l)[o] = null
            /\ \A other \in others :
                 translations(mem, other) = translations(probe.last.was, other)
            /\ probe.last.scoped => mem = probe.last.before_map

(***************************************************************************)
(* Misaligned addresses                                                    *)
(***************************************************************************)
\* C18, as stated: on the paged, the contiguous and the partial address
\* space backing, translate of an address that is not a multiple of
\* cell_bytes returns null.
MisalignedTranslationsFail ==
  (probe.op = "translate" /\ probe.done /\ probe.va % cell_bytes # 0) => probe.out = null

\* C18, amended: translate of an address that is not a multiple of
\* cell_bytes returns null on the paged backing; on the contiguous backing
\* an address below the size translates to the cell that holds it, and the
\* partial address space masks the misaligned bits off: both translate it
\* as they translate the address aligned down.
MisalignedByBacking ==
  (probe.op = "translate" /\ probe.done /\ probe.va % cell_bytes # 0) =>
    LET down == probe.va - (probe.va % cell_bytes)
    IN CASE probe.backing = "paged" -> probe.out = null
         [] probe.backing = "contiguous" ->
              /\ probe.va < 2 * DataCells * cell_bytes =>
                   probe.out = [buf |-> "host", idx |-> down \div cell_bytes]
              /\ probe.va >= 2 * DataCells * cell_bytes => probe.out = null
         [] OTHER ->
              probe.out = IF down + probe.backing_bits = 0 THEN null
                          ELSE [buf |-> "address", idx |-> down + probe.backing_bits]

\* a misaligned address inside the buffer was translated by the contiguous
\* backing
MisalignedTranslated ==
  /\ probe.op = "translate"
  /\ probe.done
  /\ probe.backing = "contiguous"
  /\ probe.va = cell_bytes + 1
  /\ probe.out = [buf |-> "host", idx |-> 1]

(***************************************************************************)
(* The loader's checks                                                     *)
(***************************************************************************)
\* the error the order of the checks gives a header
first_failing_check(h) ==
  IF h.buf_size < 60 THEN "invalid_file"
  ELSE IF h.magic \in magics \ {expected_magic} THEN "wrong_cell_size"
  ELSE IF h.magic # expected_magic THEN "invalid_file"
  ELSE IF h.size > h.buf_size THEN "invalid_file"
  ELSE IF h.file_version # 11 THEN "unsupported_file_version"
  ELSE IF h.amx_version > 11 THEN "unsupported_amx_version"
  ELSE IF BitOp("and", h.flags, 1 + 8, 16) # 0 THEN "feature_not_supported"
  ELSE IF h.defsize < 8 THEN "invalid_file"
  ELSE "none"

\* C19: init returns the error of the first failing check in the order:
\* buffer shorter than 60 bytes (invalid_file), magic (wrong_cell_size for
\* the magic of another supported width, else invalid_file), size field
\* over the buffer length (invalid_file), file version not 11, AMX version
\* over 11, overlay or sleep flag (feature_not_supported), entry size under
\* 8 (invalid_file); the debug flag alone makes no file fail.
LoaderValidationOrder ==
  (probe.op = "loader" /\ probe.n >= 1) =>
    /\ first_failing_check(probe.file) # "none" =>
         probe.results[1] = first_failing_check(probe.file)
    /\ (first_failing_check(probe.file) = "none" /\ probe.file.flags = 2) =>
         probe.results[1] = init(no_module, no_mappings, no_registers,
                                 [probe.file EXCEPT !.flags = 0], probe.callbacks).result

\* a file with the magic of another cell width, an old file version and the
\* overlay flag was refused for its magic
RefusedForMagic ==
  /\ probe.op = "loader"
  /\ probe.n >= 1
  /\ probe.file.buf_size >= 60
  /\ probe.file.magic = 61920
  /\ probe.file.file_version = 10
  /\ probe.file.flags = 1
  /\ probe.results[1] = "wrong_cell_size"

\* C20, as stated: init called twice on the same loader with the same
\* buffer and registrations returns the same result both times and leaves
\* the same publics and pubvars tables, the same vector of natives and the
\* same COD, DAT, STK, STP and HEA.
LoaderIdempotent ==
  (probe.op = "loader" /\ probe.n = 2) =>
    /\ probe.results[2] = probe.results[1]
    /\ probe.loader.publics = probe.first.loader.publics
    /\ probe.loader.pubvars = probe.first.loader.pubvars
    /\ probe.loader.natives = probe.first.loader.natives
    /\ \A name \in {"COD", "DAT", "STK", "STP", "HEA"} : reg[name] = probe.first.reg[name]

(***************************************************************************)
(* The resolution of natives                                               *)
(***************************************************************************)
\* the records of the native table of a file, in file order
native_records(h) == entries_at(h, h.natives, h.libraries)

\* the callback of the first registration of a name
first_registered(callbacks, name) ==
  callbacks[CHOOSE i \in 1 .. Len(callbacks) :
              /\ callbacks[i].name = name
              /\ \A j \in 1 .. i - 1 : callbacks[j].name # name].callback

\* a file that passes the checks of the header, whose native names all end
\* inside the file, was given to init on a constructed loader
natives_read ==
  /\ probe.op = "loader"
  /\ probe.n >= 1
  /\ first_failing_check(probe.file) = "none"
  /\ \A i \in 1 .. Len(native_records(probe.file)) : native_records(probe.file)[i].terminated

sysreq_of_native ==
  /\ executes("SYSREQ")
  /\ operand_at(reg, buf) < Len(natives)
  /\ operand_at(reg, buf) \notin {cbid_single_step, cbid_break}

\* the native of a SYSREQ returns to fire_callback
native_returns ==
  /\ depth > 0
  /\ depth' = depth
  /\ top.pc = "cb"
  /\ top.from = "step"
  /\ top.lastop = "SYSREQ"
  /\ top'.pc # "cb"

\* C22: for a SYSREQ whose index selects a native, the native is called with
\* argc = (cell at STK) / cell_bytes and argv = STK + cell_bytes, STK being
\* the value at the SYSREQ; if the cell at STK cannot be translated the
\* result is access_violation and no native is called; the value the native
\* left in retval is PRI when it returns, and the SYSREQ leaves STK as it
\* was. When the native returned success the call goes on past the operand.
NativeInvocation ==
  [][
     /\ sysreq_of_native =>
          IF data_v2p(mem, reg, reg.STK) = null
          THEN /\ step_returned("access_violation")
               /\ top'.host = "none"
               /\ top'.argc = top.argc
          ELSE /\ top'.pc = "cb"
               /\ top'.host = natives[operand_at(reg, buf) + 1]
               /\ top'.argc = rd(buf, data_v2p(mem, reg, reg.STK)) \div cell_bytes
               /\ top'.argv = cell(reg.STK + cell_bytes)
               /\ reg'.STK = reg.STK
               /\ buf' = buf
     /\ native_returns =>
          /\ reg'.PRI = reg.PRI
          /\ reg'.STK = top.pre.STK
          /\ top'.cbres = "success" =>
               /\ top'.pc = "loop"
               /\ reg'.CIP = cell(top.lastcip + 2 * cell_bytes)
    ]_vars

\* the native of the compiled call got one argument, 33, wrote retval, and
\* the call goes on behind the SYSREQ with that PRI and the STK of the SYSREQ
NativeGotOneArgument ==
  /\ depth = 1
  /\ top.pc = "loop"
  /\ top.lastop = "SYSREQ"
  /\ top.cbres = "success"
  /\ top.argc = 1
  /\ rd(buf, data_v2p(mem, reg, top.argv)) = 33
  /\ top.pre.PRI = cell_bytes
  /\ reg.PRI = CallbackValue
  /\ reg.STK = top.pre.STK

(***************************************************************************)
(* The stack pointer and the registers of the layout                       *)
(***************************************************************************)
\* the innermost call is between two instructions
between_instructions == depth > 0 /\ top.pc \in {"loop", "step"}

\* C23, as stated: STK <= STP holds at every instruction boundary of every
\* call started on a freshly initialised machine, whatever the bytecode
\* (the callbacks have assigned to no register and moved no stack).
StkNeverAboveStp == (between_instructions /\ cbops = 0) => reg.STK <= reg.STP

\* the registers after the opcode and its operand were fetched
operand_fetched == [reg EXCEPT !.CIP = cell(reg.CIP + 2 * cell_bytes)]

\* step made the call go on, or end with success at address 0
step_succeeded == top'.pc = "loop" \/ step_returned("success")

\* C24: COD, DAT and STP are the same after every instruction, whatever the
\* opcode and its operand; SCTRL with tag 2, 4, 5, 6 assigns PRI to HEA, STK,
\* FRM, CIP and nothing else; SCTRL with any other tag returns
\* invalid_operand and has changed no register but the advanced CIP; LCTRL
\* with a tag over 6 returns invalid_operand.
LayoutRegistersConstant ==
  [][
     /\ decodes =>
          /\ reg'.COD = reg.COD
          /\ reg'.DAT = reg.DAT
          /\ reg'.STP = reg.STP
     /\ executes("SCTRL") =>
          CASE operand_at(reg, buf) = 2 ->
                 step_succeeded /\ reg' = [operand_fetched EXCEPT !.HEA = reg.PRI]
            [] operand_at(reg, buf) = 4 ->
                 step_succeeded /\ reg' = [operand_fetched EXCEPT !.STK = reg.PRI]
            [] operand_at(reg, buf) = 5 ->
                 step_succeeded /\ reg' = [operand_fetched EXCEPT !.FRM = reg.PRI]
            [] operand_at(reg, buf) = 6 ->
                 step_succeeded /\ reg' = [operand_fetched EXCEPT !.CIP = reg.PRI]
            [] OTHER -> step_returned("invalid_operand") /\ reg' = operand_fetched
     /\ (executes("LCTRL") /\ operand_at(reg, buf) > 6) =>
          step_returned("invalid_operand") /\ reg' = operand_fetched
    ]_vars

\* SCTRL 3 was refused with STP as it was, PRI being another value
StpWriteRefused ==
  /\ depth = 1
  /\ top.lastop = "SCTRL"
  /\ buf.code[4] = 3
  /\ top.pc = "done"
  /\ top.result = "invalid_operand"
  /\ reg.PRI = 10
  /\ reg.STP = top.entry.STP
  /\ reg.STP # reg.PRI

(***************************************************************************)
(* The bounds check of the broker                                          *)
(***************************************************************************)
\* C25, as stated: for an index that is neither of the two reserved ones the
\* broker calls a native only when the index is below the number of resolved
\* natives; for every index from that number on, the number itself included,
\* it returns invalid_operand, reads no entry of the vector and calls nothing.
BrokerBoundsCheck ==
  [][(/\ executes("SYSREQ")
      /\ operand_at(reg, buf) \notin {cbid_single_step, cbid_break}
      /\ operand_at(reg, buf) >= Len(natives))
       => (step_returned("invalid_operand") /\ top'.host = "none")]_vars

(***************************************************************************)
(* The base of the displacements of a case table                           *)
(***************************************************************************)
\* the address just past the displacement cell SWITCH takes at CIP: that of
\* the first record whose test value is PRI, or the default one
past_taken_displacement(r, b) ==
  LET tbl == cell(r.CIP + operand_at(r, b))
      matches == {j \in 1 .. code_cell(r, b, tbl + cell_bytes) :
                    code_cell(r, b, tbl + (1 + 2 * j) * cell_bytes) = r.PRI}
      taken == IF matches = {} THEN 0 ELSE CHOOSE j \in matches : \A k \in matches : j <= k
  IN cell(tbl + (3 + 2 * taken) * cell_bytes)

\* step decodes a SWITCH whose table has its marker and can be read
switch_taken ==
  /\ executes("SWITCH")
  /\ code_cell(reg, buf, cell(reg.CIP + operand_at(reg, buf))) = OP_CASETBL
  /\ ~table_unreadable(reg, buf)

\* C26, as stated: for the default branch and for every case record the new
\* CIP is (the code address just past the displacement cell that was
\* fetched) - cell_bytes + displacement, modulo 2^w: each displacement
\* counts from the address of its own cell.
SwitchBaseOwnCell ==
  [][switch_taken =>
       LET past == past_taken_displacement(reg, buf)
       IN reg'.CIP = cell(past - cell_bytes + code_cell(reg, buf, past - cell_bytes))]_vars

\* C26, amended: the new CIP is (the code address just past the
\* displacement cell that was fetched) - 2 * cell_bytes + displacement,
\* modulo 2^w: each displacement counts from the cell before its own, the
\* record count for the default branch and the test value for a record.
SwitchBaseCellBefore ==
  [][switch_taken =>
       LET past == past_taken_displacement(reg, buf)
       IN reg'.CIP = cell(past - 2 * cell_bytes + code_cell(reg, buf, past - cell_bytes))]_vars

\* the record of the table of negative displacements was taken: from the
\* cell at 16 with displacement -12, CIP is 16 - 2 - 12 modulo 2^w
NegativeDisplacementTaken ==
  /\ depth > 0
  /\ top.lastop = "SWITCH"
  /\ top.pc = "loop"
  /\ Len(buf.code) = 9
  /\ buf.code[9] = minus(6 * cell_bytes)
  /\ reg.PRI = buf.code[8]
  /\ reg.CIP = cell_bytes

(***************************************************************************)
(* The comparison of blocks                                                *)
(***************************************************************************)
\* the cells of the blocks of n bytes at the addresses in PRI and in ALT
\* differ first at offset i
first_difference(r, b, n, i) ==
  /\ i < n
  /\ i % cell_bytes = 0
  /\ data_cell(r, b, r.PRI + i) # data_cell(r, b, r.ALT + i)
  /\ \A j \in 0 .. i - 1 :
       j % cell_bytes = 0 => data_cell(r, b, r.PRI + j) = data_cell(r, b, r.ALT + j)

\* C27, as stated: CMPS op compares the block of op bytes at the address PRI
\* holds on entry with the block at the address in ALT, cell by cell in
\* ascending order: afterwards PRI is the difference (cell of the ALT block
\* minus cell of the PRI block) of the first pair that differs, or 0 when
\* all pairs are equal; ALT and the memory are unchanged.
CmpsComparesBlocks ==
  [][(/\ executes("CMPS")
      /\ \A i \in 0 .. operand_at(reg, buf) - 1 :
           i % cell_bytes = 0 =>
             /\ data_cell(reg, buf, reg.PRI + i) # Unset
             /\ data_cell(reg, buf, reg.ALT + i) # Unset)
       => /\ top'.pc = "loop"
          /\ reg'.ALT = reg.ALT
          /\ buf' = buf
          /\ \A i \in 0 .. operand_at(reg, buf) - 1 :
               first_difference(reg, buf, operand_at(reg, buf), i) =>
                 reg'.PRI = cell(data_cell(reg, buf, reg.ALT + i)
                                   - data_cell(reg, buf, reg.PRI + i) + Modulus)
          /\ (\A i \in 0 .. operand_at(reg, buf) - 1 :
                ~first_difference(reg, buf, operand_at(reg, buf), i)) => reg'.PRI = 0]_vars

(***************************************************************************)
(* The operand errors of the sub-cell accesses                             *)
(***************************************************************************)
\* the operand of the LODB_I or STRB_I at CIP is no width, or the bytes
\* [addr, addr + w) are not in one cell
bad_width(addr) ==
  \/ operand_at(reg, buf) \notin {1, 2, 4}
  \/ spans_cells(cell_bytes, addr, operand_at(reg, buf))

\* C28, as stated: LODB_I and STRB_I return invalid_operand, for every
\* address in PRI or ALT, mapped or not, whenever the width operand is not
\* 1, 2 or 4 or the access crosses a cell boundary; no memory cell and no
\* register but CIP is changed.
SubCellOperandErrors ==
  [][((executes("LODB_I") /\ bad_width(reg.PRI)) \/ (executes("STRB_I") /\ bad_width(reg.ALT)))
       => /\ step_returned("invalid_operand")
          /\ buf' = buf
          /\ reg' = operand_fetched]_vars

(***************************************************************************)
(* Branches and calls inside the bytecode                                  *)
(***************************************************************************)
\* the registers after a branch of the instruction at CIP was taken: the
\* address of the opcode plus the operand
branch_taken == [reg EXCEPT !.CIP = cell(reg.CIP + operand_at(reg, buf))]

\* C29: CALL, JUMP, JZER with PRI = 0 and JNZ with PRI # 0, with operand d at
\* opcode address a, set CIP to a + d modulo 2^w; JZER and JNZ that are not
\* taken leave CIP at a + 2 * cell_bytes; the jumps change nothing else. CALL
\* pushes a + 2 * cell_bytes before it branches, and when that push fails it
\* returns access_violation with CIP at a + 2 * cell_bytes.
SelfRelativeBranches ==
  [][
     /\ executes("JUMP") => (reg' = branch_taken /\ buf' = buf)
     /\ executes("JZER") =>
          (reg' = (IF reg.PRI = 0 THEN branch_taken ELSE operand_fetched) /\ buf' = buf)
     /\ executes("JNZ") =>
          (reg' = (IF reg.PRI # 0 THEN branch_taken ELSE operand_fetched) /\ buf' = buf)
     /\ executes("CALL") =>
          IF data_v2p(mem, reg, cell(reg.STK - cell_bytes + Modulus)) = null
          THEN /\ step_returned("access_violation")
               /\ reg'.CIP = operand_fetched.CIP
               /\ buf' = buf
          ELSE /\ reg' = [branch_taken EXCEPT !.STK = cell(reg.STK - cell_bytes + Modulus)]
               /\ data_cell(reg', buf', reg'.STK) = operand_fetched.CIP
               /\ buf'.code = buf.code
    ]_vars

\* the CALL at 4 with operand -cell_bytes pushed 8 and went to 2
CalledBackwards ==
  /\ depth > 0
  /\ top.lastop = "CALL"
  /\ top.lastcip = 2 * cell_bytes
  /\ buf.code[4] = minus(cell_bytes)
  /\ top.pc = "loop"
  /\ reg.CIP = cell_bytes
  /\ data_cell(reg, buf, reg.STK) = 4 * cell_bytes

\* the function a CALL of the bytecode went to has returned by the opcode
\* `return`, and the call goes on
function_returned(return) ==
  /\ depth > 0
  /\ top.pc = "loop"
  /\ top.ncalls = 1
  /\ top.lastop = return

\* C30: after a caller pushed k argument cells and the cell k * cell_bytes
\* and executed CALL to a function made of PROC, a stack-balanced body and
\* RETN, execution continues at the address just past the CALL operand with
\* the FRM of the caller and with STK at its value before the k arguments
\* were pushed, which in these callers is their FRM; with RET in place of
\* RETN, FRM and CIP are restored the same way and the k + 1 cells are still
\* on the stack.
CallReturnRoundTrip ==
  /\ function_returned("RETN") =>
       /\ reg.CIP = cell(top.called.CIP + 2 * cell_bytes)
       /\ reg.FRM = top.called.FRM
       /\ reg.STK = cell(top.called.STK
                           + data_cell(reg, buf, top.called.STK) + cell_bytes)
       /\ reg.STK = top.called.FRM
  /\ function_returned("RET") =>
       /\ reg.CIP = cell(top.called.CIP + 2 * cell_bytes)
       /\ reg.FRM = top.called.FRM
       /\ reg.STK = top.called.STK
       /\ data_cell(reg, buf, reg.STK) = cell(top.called.FRM - reg.STK + Modulus) - cell_bytes

\* a function called with one argument returned by RETN after a body that
\* used a local, and the caller has its frame and its stack back
ReturnedFromFunction ==
  /\ function_returned("RETN")
  /\ data_cell(reg, buf, top.called.STK) = cell_bytes
  /\ data_cell(reg, buf, top.called.STK + cell_bytes) = arguments(1)[1]
  /\ data_cell(reg, buf, top.called.STK - 3 * cell_bytes) = 7
  /\ reg.FRM = reg.STK
  /\ reg.FRM = cell(top.entry.STK - (Len(top.args) + 3) * cell_bytes + Modulus)

(***************************************************************************)
(* The stack and the heap after init                                       *)
(***************************************************************************)
\* C31, as stated: after every successful init STP = STK = (data_size - 1) *
\* cell_bytes and HEA = data_oldsize * cell_bytes, computed without
\* wrap-around, HEA <= STK, and data_v2p(STK) is a cell, for every header the
\* checks accept, those with stp = hea and with dat = hea = stp included.
BringUpUsable ==
  (probe.op = "loader" /\ probe.n = 1 /\ probe.results[1] = "success") =>
    /\ Len(probe.loader.data) >= 1
    /\ reg.STK = (Len(probe.loader.data) - 1) * cell_bytes
    /\ reg.STP = reg.STK
    /\ reg.HEA = Len(probe.file.data) * cell_bytes
    /\ reg.HEA <= reg.STK
    /\ data_v2p(mem, reg, reg.STK) # null

(***************************************************************************)
(* Failure effects of the stack primitives                                 *)
(***************************************************************************)
\* the instructions whose first access of the stack is a PUSH, or a POP
push_first == {"PUSH_PRI", "PUSH_ALT", "PUSHR_PRI", "PROC", "CALL"}
pop_first == {"POP_PRI", "POP_ALT", "RET", "RETN"}

\* the registers after the opcode, and the operand if it has one, were fetched
after_fetch(op) ==
  [reg EXCEPT !.CIP = cell(reg.CIP + (IF op \in operand_ops THEN 2 ELSE 1) * cell_bytes)]

\* the cell below STK, and the cell at STK, do not translate
push_target_missing == data_v2p(mem, reg, cell(reg.STK - cell_bytes)) = null
pop_target_missing == data_v2p(mem, reg, reg.STK) = null

\* host code in a callback called the primitive named what
host_called(what) ==
  /\ depth > 0
  /\ depth' = depth
  /\ top.pc = "cb"
  /\ what \in top'.did \ top.did

\* the pushes call(cip, retval, args) attempts when one of them fails: the
\* first j whose cell below STK does not translate
pushes_attempted ==
  CHOOSE j \in 1 .. MaxArgs + 2 :
    /\ data_v2p(mem, reg, cell(reg.STK - j * cell_bytes)) = null
    /\ \A i \in 1 .. j - 1 : data_v2p(mem, reg, cell(reg.STK - i * cell_bytes)) # null

\* call(cip, retval, args) returned from its argument set-up
call_failed_in_setup ==
  /\ depth' = depth + 1
  /\ top'.pc = "done"
  /\ top'.how = "setup"
  /\ top'.retval = Unset

\* the cells that differ between the buffers before and after
cells_changed ==
  { p \in [buf : {"code", "data"}, idx : 0 .. Len(buf.code) + Len(buf.data)] :
      /\ p.idx < Len(buf[p.buf])
      /\ buf'[p.buf][p.idx + 1] # buf[p.buf][p.idx + 1] }

\* C32: a push whose target cell does not translate, by host code or by an
\* instruction, returns access_violation with STK lowered by one cell and no
\* cell written; a pop whose cell does not translate returns access_violation
\* with STK and every other register as they were; a call that fails in its
\* argument set-up leaves STK lower by one cell for every push it attempted,
\* the failed one included, and has written only the cells of the pushes
\* before it.
StackPrimitiveFailures ==
  [][
     /\ (host_called("push") /\ push_target_missing) =>
          /\ top'.primitive = "access_violation"
          /\ reg' = [reg EXCEPT !.STK = cell(reg.STK - cell_bytes)]
          /\ buf' = buf
     /\ (host_called("pop") /\ pop_target_missing) =>
          /\ top'.primitive = "access_violation"
          /\ reg' = reg
          /\ buf' = buf
     /\ (decodes /\ fetched(reg, buf) /\ opcode_at(mem, reg, buf) \in push_first
           /\ push_target_missing) =>
          /\ step_returned("access_violation")
          /\ reg' = [after_fetch(opcode_at(mem, reg, buf))
                       EXCEPT !.STK = cell(reg.STK - cell_bytes)]
          /\ buf' = buf
     /\ (decodes /\ fetched(reg, buf) /\ opcode_at(mem, reg, buf) \in pop_first
           /\ pop_target_missing) =>
          /\ step_returned("access_violation")
          /\ reg' = after_fetch(opcode_at(mem, reg, buf))
          /\ buf' = buf
     /\ call_failed_in_setup =>
          /\ top'.result = "access_violation"
          /\ pushes_attempted <= Len(top'.args) + 1
          /\ reg' = [reg EXCEPT !.STK = cell(reg.STK - pushes_attempted * cell_bytes)]
          /\ \A p \in cells_changed :
               \E j \in 1 .. pushes_attempted - 1 :
                 data_v2p(mem, reg, cell(reg.STK - j * cell_bytes)) = p
    ]_vars

\* a call with two arguments failed at its third push: STK is three cells
\* below the STK of entry
SetupFailedAtThirdPush ==
  /\ depth > 0
  /\ top.pc = "done"
  /\ top.how = "setup"
  /\ top.retval = Unset
  /\ Len(top.args) = 2
  /\ top.result = "access_violation"
  /\ reg.STK = cell(top.entry.STK - 3 * cell_bytes)

(***************************************************************************)
(* Calling address 0                                                       *)
(***************************************************************************)
\* activation f, of a call of address 0, decoded nothing and fired nothing
nothing_ran(f) ==
  /\ f.pc = "done"
  /\ f.nins = 0
  /\ f.nss = 0
  /\ f.cbres = "none"

\* the registers are those a call of activation f left: it is the innermost
\* one
just_returned(i) == i = depth

\* the first of the pushes of activation f whose cell does not translate
first_failing(f) ==
  CHOOSE j \in 1 .. Len(f.args) + 2 :
    /\ data_v2p(mem, f.entry, cell(f.entry.STK - j * cell_bytes)) = null
    /\ \A k \in 1 .. j - 1 :
         data_v2p(mem, f.entry, cell(f.entry.STK - k * cell_bytes)) # null

\* C33, as stated: every call of address 0 executes no instruction, fires no
\* callback, returns success with retval = PRI, and leaves STK lower by the
\* number of arguments plus two cells.
CallAtZeroSucceeds ==
  \A i \in 1 .. depth :
    LET f == calls[i]
    IN f.cip = invalid_cip =>
         /\ nothing_ran(f)
         /\ f.result = "success"
         /\ f.retval = f.entry.PRI
         /\ just_returned(i) =>
              reg.STK = cell(f.entry.STK - (Len(f.args) + 2) * cell_bytes)

\* C33, amended: a call of address 0 executes no instruction and fires no
\* callback; when the number of arguments plus two cells below STK all
\* translate it returns success with retval = PRI and STK lower by that many
\* cells, and otherwise it returns access_violation from its set-up, with STK
\* lower by one cell for every push attempted.
CallAtZero ==
  \A i \in 1 .. depth :
    LET f == calls[i]
    IN f.cip = invalid_cip =>
         /\ nothing_ran(f)
         /\ IF setup_fails(f)
            THEN /\ f.how = "setup"
                 /\ f.result = "access_violation"
                 /\ just_returned(i) =>
                      reg.STK = cell(f.entry.STK - first_failing(f) * cell_bytes)
            ELSE /\ f.how = "entry"
                 /\ f.result = "success"
                 /\ f.retval = f.entry.PRI
                 /\ just_returned(i) =>
                      /\ reg.STK = cell(f.entry.STK - (Len(f.args) + 2) * cell_bytes)
                      /\ reg.PRI = f.entry.PRI

\* a call of address 0 with two arguments returned success, four cells down
ZeroCalledWithTwoArguments ==
  /\ depth > 0
  /\ top.cip = invalid_cip
  /\ top.pc = "done"
  /\ top.result = "success"
  /\ Len(top.args) = 2
  /\ top.retval = top.entry.PRI
  /\ reg.STK = cell(top.entry.STK - 4 * cell_bytes)

(***************************************************************************)
(* Code immutability under the two managers                                *)
(***************************************************************************)
\* the host cell a store of the instruction at CIP goes to, null if its
\* address does not translate
store_target ==
  data_v2p(mem, reg, first_address(opcode_at(mem, reg, buf), operand_at(reg, buf), reg))

\* step decodes a store whose address, added to DAT, lands in the code pages
stores_into_code ==
  /\ decodes
  /\ fetched(reg, buf)
  /\ opcode_at(mem, reg, buf) \in store_ops
  /\ store_target # null
  /\ store_target.buf = "code"

\* the code addresses that translate to the host cell p
code_addresses_of(p) ==
  { c \in { k * cell_bytes : k \in 0 .. Len(buf.code) - 1 } : code_v2p(mem, reg, c) = p }

\* C34: on a Harvard manager no instruction changes a cell of the code image;
\* on the Neumann manager over one paged backing a store of PRI whose address,
\* added to DAT modulo 2^w, lands in the code pages succeeds and changes that
\* cell of the code image and no other cell, and a fetch from the code
\* address of that cell then reads the value stored.
CodeImmutability ==
  [][
     /\ (decodes /\ harvard(mem)) => buf'.code = buf.code
     /\ stores_into_code =>
          /\ ~harvard(mem)
          /\ step_succeeded
          /\ buf' = wr(buf, store_target, reg.PRI)
          /\ code_addresses_of(store_target) # {}
          /\ \A c \in code_addresses_of(store_target) :
               code_cell(reg', buf', c) = reg.PRI
    ]_vars

\* STOR with operand COD - DAT + 4 * cell_bytes has replaced the NOP behind
\* it: the next fetch reads the RETN that was stored
NextOpcodeOverwritten ==
  /\ depth > 0
  /\ ~harvard(mem)
  /\ top.pc = "loop"
  /\ top.lastop = "STOR"
  /\ opcode_at(mem, top.pre, top.entrybuf) = "STOR"
  /\ opcode_at(mem, reg, top.entrybuf) = "NOP"
  /\ opcode_at(mem, reg, buf) = "RETN"
  /\ buf.data = top.entrybuf.data
====
